---------------------------- MODULE Spec2Model ----------------------------
(***************************************************************************)
(* The social engine of NocturneAI (crates/social-engine): the             *)
(* relationship ledger (RelationshipManager), the learning tracker         *)
(* (SocialLearningSystem), the per-agent metrics (NetworkAnalyzer) and the *)
(* orchestrator (SocialEngine) with its social-event log.                  *)
(*                                                                         *)
(* Numbers.  The code computes in f32.  The model computes the same        *)
(* expressions in exact decimal fixed point: a strength, a strength delta  *)
(* and a metrics value are integers counting thousandths (0.1 is 100,      *)
(* 1.0 is 1000).  Every literal of the code is an exact multiple of the    *)
(* unit it is written in, so no expression of the model is rounded; the    *)
(* f32 rounding error of the code (below 1e-6) is not modelled.            *)
(*                                                                         *)
(* Time.  Utc::now() is the variable now, in hours.                        *)
(*                                                                         *)
(* Uuid::new_v4() identifiers of records and events are random and never   *)
(* read by the code that is modelled; they are left out.                   *)
(***************************************************************************)
EXTENDS Integers, Sequences, FiniteSets, TLC

VARIABLES
    relationships,       \* RelationshipManager.relationships: agent -> Vec of records
    connection_history,  \* RelationshipManager.connection_history
    learning_records,    \* SocialLearningSystem.learning_records
    network_metrics,     \* NetworkAnalyzer.network_metrics: agent -> metrics record
    social_events,       \* SocialEngine.social_events
    now,                 \* Utc::now(), in hours
    pc,                  \* position inside process_social_interaction
    call,                \* the locals of the process_social_interaction call in flight
    ret                  \* what the last finished call returned

vars == <<relationships, connection_history, learning_records, network_metrics,
          social_events, now, pc, call, ret>>

---------------------------------------------------------------------------
(* Bounds of the model *)

\* at most MaxCalls process_social_interaction calls in one run of Spec
MaxCalls == 2
\* at most MaxUpdates direct update_relationship calls in one run of SpecLedger
MaxUpdates == 1
\* at most MaxRatchetUpdates update_relationship calls in one run of SpecRatchet
MaxRatchetUpdates == 3
\* at most MaxQueryCalls process_social_interaction calls in one run of
\* SpecQueries
MaxQueryCalls == 3
\* at most MaxScenarioCalls calls in one run of the single-pair scenario
MaxScenarioCalls == 12
\* the clock is advanced at most MaxTicks times
MaxTicks == 2
\* hours added by one advance of the clock
HoursPerTick == 12
\* a direct caller hands over at most MaxParticipants participants
MaxParticipants == 3
\* in one run of SpecMetrics a call is made while the record of the agent that
\* takes part in every call has been updated fewer than MaxMetricsTouches times
MaxMetricsTouches == 12

\* at most MaxRecommendUpdates update_relationship calls in one run of
\* SpecRecommend
MaxRecommendUpdates == 1
\* at most MaxLearningCalls process_social_interaction calls in one run of
\* SpecLearning
MaxLearningCalls == 1
\* at most MaxDynamicUpdates update_relationship calls in one run of SpecDynamic
MaxDynamicUpdates == 1
\* in SpecDynamic the clock leaps by DaysPerLeap days, at most MaxLeaps times
DaysPerLeap == 25
MaxLeaps == 3
\* at most MaxGrowUpdates updates of the pair in one run of SpecGrow
MaxGrowUpdates == 12
\* SpecCrowd has MaxCrowd agents
MaxCrowd == 11

\* the agent identifiers (AgentId is a Uuid; three of them)
Agents == {"alice", "bob", "carol"}

---------------------------------------------------------------------------
(* shared-types: the enumerations *)

CT_Collaboration == "ConnectionType::Collaboration"
CT_Mentorship    == "ConnectionType::Mentorship"
CT_Competition   == "ConnectionType::Competition"
CT_DataSharing   == "ConnectionType::DataSharing"
CT_Learning      == "ConnectionType::Learning"
CT_Consultation  == "ConnectionType::Consultation"
CT_Friendship    == "ConnectionType::Friendship"
CT_Professional  == "ConnectionType::Professional"

ConnectionType ==
    {CT_Collaboration, CT_Mentorship, CT_Competition, CT_DataSharing,
     CT_Learning, CT_Consultation, CT_Friendship, CT_Professional}

InteractionOutcome == {"Successful", "Failed", "Partial", "Pending"}

SIT_Collaboration    == "SocialInteractionType::Collaboration"
SIT_Mentorship       == "SocialInteractionType::Mentorship"
SIT_KnowledgeSharing == "SocialInteractionType::KnowledgeSharing"
SIT_ProblemSolving   == "SocialInteractionType::ProblemSolving"
SIT_CreativeSession  == "SocialInteractionType::CreativeSession"
SIT_FormalMeeting    == "SocialInteractionType::FormalMeeting"
SIT_CasualChat       == "SocialInteractionType::CasualChat"
SIT_PeerReview       == "SocialInteractionType::PeerReview"
SIT_Teaching         == "SocialInteractionType::Teaching"
SIT_Learning         == "SocialInteractionType::Learning"

SocialInteractionType ==
    {SIT_Collaboration, SIT_Mentorship, SIT_KnowledgeSharing, SIT_ProblemSolving,
     SIT_CreativeSession, SIT_FormalMeeting, SIT_CasualChat, SIT_PeerReview,
     SIT_Teaching, SIT_Learning}

\* #[derive(Debug)] on SocialInteractionType: format!("{:?}", k) is the variant's name
DebugFmt(k) ==
    CASE k = SIT_Collaboration    -> "Collaboration"
      [] k = SIT_Mentorship       -> "Mentorship"
      [] k = SIT_KnowledgeSharing -> "KnowledgeSharing"
      [] k = SIT_ProblemSolving   -> "ProblemSolving"
      [] k = SIT_CreativeSession  -> "CreativeSession"
      [] k = SIT_FormalMeeting    -> "FormalMeeting"
      [] k = SIT_CasualChat       -> "CasualChat"
      [] k = SIT_PeerReview       -> "PeerReview"
      [] k = SIT_Teaching         -> "Teaching"
      [] k = SIT_Learning         -> "Learning"

\* impl Display for SocialInteractionType: k.to_string()
DisplayFmt(k) ==
    CASE k = SIT_Collaboration    -> "collaboration"
      [] k = SIT_Mentorship       -> "mentorship"
      [] k = SIT_KnowledgeSharing -> "knowledge_sharing"
      [] k = SIT_ProblemSolving   -> "problem_solving"
      [] k = SIT_CreativeSession  -> "creative_session"
      [] k = SIT_FormalMeeting    -> "formal_meeting"
      [] k = SIT_CasualChat       -> "casual_chat"
      [] k = SIT_PeerReview       -> "peer_review"
      [] k = SIT_Teaching         -> "teaching"
      [] k = SIT_Learning         -> "learning"

---------------------------------------------------------------------------
(* Helpers for HashMap and f32 *)

\* HashMap::get(k).cloned().unwrap_or_default() on a map of Vecs
GetOrEmpty(m, k) == IF k \in DOMAIN m THEN m[k] ELSE <<>>

\* AfterGet with the lookup written as entry(k).or_default(), which inserts
AfterGet_Entry(m, k) ==
    [x \in DOMAIN m \cup {k} |-> IF x \in DOMAIN m THEN m[x] ELSE <<>>]

\* the map after HashMap::get(&k) on a shared borrow: the lookup inserts nothing
AfterGet(m, k) == m

\* HashMap::entry(k).or_insert_with(Vec::new).push(v)
EntryPush(m, k, v) ==
    [x \in DOMAIN m \cup {k} |-> IF x = k THEN Append(GetOrEmpty(m, k), v) ELSE m[x]]

\* f32::clamp(lo, hi)
Clamp(x, lo, hi) == IF x < lo THEN lo ELSE IF x > hi THEN hi ELSE x

\* f32::abs
Abs(x) == IF x < 0 THEN -x ELSE x

---------------------------------------------------------------------------
(* relationship_manager.rs: RelationshipManager *)

\* BaseChange that counts a pending interaction like a partial one
BaseChange_PendingPartial(outcome) ==
    CASE outcome = "Successful" -> 10
      [] outcome = "Partial"    -> 5
      [] outcome = "Failed"     -> -5
      [] outcome = "Pending"    -> 5

\* calculate_strength_change: base_change, in hundredths
BaseChange(outcome) ==
    CASE outcome = "Successful" -> 10
      [] outcome = "Partial"    -> 5
      [] outcome = "Failed"     -> -5
      [] outcome = "Pending"    -> 0

\* calculate_strength_change: type_modifier, in tenths; the match compares the
\* label with the lower-case literals as written (str equality)
TypeModifier(label) ==
    CASE label = "collaboration" -> 15
      [] label = "mentorship"    -> 13
      [] label = "competition"   -> 8
      [] label = "data_sharing"  -> 12
      [] label = "consultation"  -> 11
      [] OTHER                   -> 10

\* calculate_strength_change(interaction), in thousandths
calculate_strength_change(interaction) ==
    BaseChange(interaction.outcome) * TypeModifier(interaction.interaction_type)

\* ApplyStrengthChange with the clamp forgotten
ApplyStrengthChange_Unclamped(strength, strength_change) ==
    strength + strength_change

\* relationship.strength = (relationship.strength + strength_change).clamp(0.0, 1.0)
ApplyStrengthChange(strength, strength_change) ==
    Clamp(strength + strength_change, 0, 1000)

\* EvolutionDue with the count compared one too high
EvolutionDue_Late(strength, interaction_count) ==
    strength > 900 /\ interaction_count > 11

\* relationship.strength > 0.9 && relationship.interaction_count > 10
EvolutionDue(strength, interaction_count) ==
    strength > 900 /\ interaction_count > 10

\* EvolvedType with an arm too many: Collaboration is promoted as well
EvolvedType_ExtraArm(connection_type) ==
    CASE connection_type = CT_Professional  -> CT_Friendship
      [] connection_type = CT_Mentorship    -> CT_Collaboration
      [] connection_type = CT_Competition   -> CT_Professional
      [] connection_type = CT_DataSharing   -> CT_Collaboration
      [] connection_type = CT_Consultation  -> CT_Mentorship
      [] connection_type = CT_Collaboration -> CT_Friendship
      [] OTHER                              -> connection_type

\* EvolvedType with a way back: Friendship returns to Professional
EvolvedType_WayBack(connection_type) ==
    CASE connection_type = CT_Professional -> CT_Friendship
      [] connection_type = CT_Mentorship   -> CT_Collaboration
      [] connection_type = CT_Competition  -> CT_Professional
      [] connection_type = CT_DataSharing  -> CT_Collaboration
      [] connection_type = CT_Consultation -> CT_Mentorship
      [] connection_type = CT_Friendship   -> CT_Professional
      [] OTHER                             -> connection_type

\* the match on relationship.connection_type inside update_relationship
EvolvedType(connection_type) ==
    CASE connection_type = CT_Professional -> CT_Friendship
      [] connection_type = CT_Mentorship   -> CT_Collaboration
      [] connection_type = CT_Competition  -> CT_Professional
      [] connection_type = CT_DataSharing  -> CT_Collaboration
      [] connection_type = CT_Consultation -> CT_Mentorship
      [] OTHER                             -> connection_type

\* NewRelationship that creates a Mentorship record
NewRelationship_Mentorship(owner, other, t) ==
    [agent_id |-> owner, other_agent_id |-> other,
     connection_type |-> CT_Mentorship, strength |-> 100,
     established_at |-> t, last_interaction |-> t, interaction_count |-> 0]

\* the AgentRelationship literal of get_or_create_relationship
NewRelationship(owner, other, t) ==
    [agent_id |-> owner, other_agent_id |-> other,
     connection_type |-> CT_Professional, strength |-> 100,
     established_at |-> t, last_interaction |-> t, interaction_count |-> 0]

\* relationships.iter().position(|r| r.other_agent_id == agent2_id): 0 when none
FindRelationship(list, agent2_id) ==
    LET hits == {i \in 1..Len(list) : list[i].other_agent_id = agent2_id}
    IN  IF hits = {} THEN 0 ELSE CHOOSE i \in hits : \A j \in hits : i <= j

\* get_or_create_relationship without the reverse record
get_or_create_relationship_OneWay(rels, agent1_id, agent2_id, t) ==
    LET found == FindRelationship(GetOrEmpty(rels, agent1_id), agent2_id)
    IN  IF found # 0
        THEN [relationships |-> rels, index |-> found, created |-> FALSE]
        ELSE LET with1 == EntryPush(rels, agent1_id,
                                    NewRelationship(agent1_id, agent2_id, t))
             IN  [relationships |-> with1,
                  index |-> Len(with1[agent1_id]),
                  created |-> TRUE]

\* get_or_create_relationship(agent1_id, agent2_id): the ledger afterwards, the
\* place of the record the returned &mut points at, and whether it was created
get_or_create_relationship(rels, agent1_id, agent2_id, t) ==
    LET found == FindRelationship(GetOrEmpty(rels, agent1_id), agent2_id)
    IN  IF found # 0
        THEN [relationships |-> rels, index |-> found, created |-> FALSE]
        ELSE LET with1 == EntryPush(rels, agent1_id,
                                    NewRelationship(agent1_id, agent2_id, t))
                 with2 == EntryPush(with1, agent2_id,
                                    NewRelationship(agent2_id, agent1_id, t))
             IN  [relationships |-> with2,
                  index |-> Len(with2[agent1_id]),   \* last_mut()
                  created |-> TRUE]

\* UpdatedRelationship that leaves the interaction count as it was
UpdatedRelationship_CountKept(r, strength_change, timestamp) ==
    LET strength == ApplyStrengthChange(r.strength, strength_change)
    IN  [r EXCEPT !.strength = strength,
                  !.last_interaction = timestamp,
                  !.connection_type =
                      IF EvolutionDue(strength, r.interaction_count)
                      THEN EvolvedType(r.connection_type)
                      ELSE r.connection_type]

\* lines 50-67 of update_relationship: the record after the update
UpdatedRelationship(r, strength_change, timestamp) ==
    LET strength == ApplyStrengthChange(r.strength, strength_change)
        count    == r.interaction_count + 1
    IN  [r EXCEPT !.strength = strength,
                  !.last_interaction = timestamp,
                  !.interaction_count = count,
                  !.connection_type =
                      IF EvolutionDue(strength, count)
                      THEN EvolvedType(r.connection_type)
                      ELSE r.connection_type]

\* NewConnectionEvent that names the two participants the other way round
NewConnectionEvent_Swapped(agent1_id, agent2_id, strength_change, t) ==
    [agent1_id |-> agent2_id, agent2_id |-> agent1_id,
     event_type |-> "StrengthChanged", timestamp |-> t,
     strength_change |-> strength_change]

\* the ConnectionEvent pushed by update_relationship
NewConnectionEvent(agent1_id, agent2_id, strength_change, t) ==
    [agent1_id |-> agent1_id, agent2_id |-> agent2_id,
     event_type |-> "StrengthChanged", timestamp |-> t,
     strength_change |-> strength_change]

\* the variants of IntelligenceError
IntelligenceError ==
    {"AgentNotFound", "CognitiveService", "SocialEngine", "Serialization",
     "Network", "Io", "Generic"}

\* the Err of update_relationship
ParticipantsError ==
    [variant |-> "Generic", message |-> "Interaction must have exactly 2 participants"]

NoError == [variant |-> "", message |-> ""]

NoUpdate ==
    [agent1_id |-> 0, agent2_id |-> 0, old_strength |-> 0, new_strength |-> 0,
     connection_type |-> ""]

\* ParticipantsInvalid that only rejects too few participants
ParticipantsInvalid_TooFewOnly(participants) == Len(participants) < 2

\* participants.len() != 2
ParticipantsInvalid(participants) == Len(participants) # 2

\* RejectInteraction that has logged the rejected interaction before returning
RejectInteraction_Logged(rels, hist) ==
    [ok |-> FALSE, error |-> ParticipantsError, value |-> NoUpdate,
     relationships |-> rels,
     connection_history |-> Append(hist, NewConnectionEvent("", "", 0, 0))]

\* the early return of update_relationship: Err, with the ledger and the log
\* as they were
RejectInteraction(rels, hist) ==
    [ok |-> FALSE, error |-> ParticipantsError, value |-> NoUpdate,
     relationships |-> rels, connection_history |-> hist]

\* WriteRelationship that carries strength and count over to the mirror record
WriteRelationship_Mirrored(rels, agent1_id, index, new) ==
    [a \in DOMAIN rels |->
        [i \in 1..Len(rels[a]) |->
            IF a = agent1_id /\ i = index THEN new
            ELSE IF /\ rels[a][i].agent_id = new.other_agent_id
                    /\ rels[a][i].other_agent_id = new.agent_id
                 THEN [rels[a][i] EXCEPT !.strength = new.strength,
                                         !.interaction_count = new.interaction_count]
                 ELSE rels[a][i]]]

\* the assignments through the &mut AgentRelationship that
\* get_or_create_relationship returned: one record of agent1_id's list is written
WriteRelationship(rels, agent1_id, index, new) ==
    [rels EXCEPT ![agent1_id][index] = new]

\* RelationshipUpdate that reports the kind the record had before the call
RelationshipUpdate_StaleKind(agent1_id, agent2_id, old, new) ==
    [agent1_id |-> agent1_id, agent2_id |-> agent2_id,
     old_strength |-> old.strength, new_strength |-> new.strength,
     connection_type |-> old.connection_type]

\* the tuple (old_strength, relationship.strength, connection_type) read from
\* the record before and after its update, in the RelationshipUpdate returned
RelationshipUpdate(agent1_id, agent2_id, old, new) ==
    [agent1_id |-> agent1_id, agent2_id |-> agent2_id,
     old_strength |-> old.strength, new_strength |-> new.strength,
     connection_type |-> new.connection_type]

\* LoggedChange that logs what the update did to the stored strength
LoggedChange_Applied(strength_change, old, new) == new.strength - old.strength

\* the strength_change field of the event pushed: the local strength_change,
\* which the clamp of the stored strength does not touch
LoggedChange(strength_change, old, new) == strength_change

\* update_relationship(&interaction) at time t on ledger rels and log hist:
\* the Result, and the ledger and the log afterwards
update_relationship(rels, hist, interaction, t) ==
    IF ParticipantsInvalid(interaction.participants)
    THEN RejectInteraction(rels, hist)
    ELSE LET agent1_id == interaction.participants[1]
             agent2_id == interaction.participants[2]
             strength_change == calculate_strength_change(interaction)
             got  == get_or_create_relationship(rels, agent1_id, agent2_id, t)
             old  == got.relationships[agent1_id][got.index]
             new  == UpdatedRelationship(old, strength_change, interaction.timestamp)
         IN  [ok |-> TRUE, error |-> NoError,
              value |-> RelationshipUpdate(agent1_id, agent2_id, old, new),
              relationships |->
                  WriteRelationship(got.relationships, agent1_id, got.index, new),
              connection_history |->
                  Append(hist, NewConnectionEvent(agent1_id, agent2_id,
                             LoggedChange(strength_change, old, new), t))]

\* get_agent_relationships
get_agent_relationships(rels, agent_id) == GetOrEmpty(rels, agent_id)

\* get_total_relationships: the records of every list, both directions counted
get_total_relationships(rels) ==
    Cardinality(UNION {{<<a, i>> : i \in 1..Len(rels[a])} : a \in DOMAIN rels})

\* get_total_agents
get_total_agents(rels) == Cardinality(DOMAIN rels)

\* iter().map(|r| r.strength).sum() over a Vec of records
RECURSIVE SumStrength(_)
SumStrength(list) ==
    IF list = << >> THEN 0 ELSE Head(list).strength + SumStrength(Tail(list))

\* the sum of the strengths of all records
RECURSIVE TotalStrength(_, _)
TotalStrength(rels, keys) ==
    IF keys = {} THEN 0
    ELSE LET k == CHOOSE x \in keys : TRUE
         IN  SumStrength(rels[k]) + TotalStrength(rels, keys \ {k})

\* An f32 quotient x / y is kept as the exact fraction [num |-> x, den |-> y];
\* 0.0 is [num |-> 0, den |-> 1].
Zero == [num |-> 0, den |-> 1]

\* get_average_relationship_strength: total strength (thousandths) over count
get_average_relationship_strength(rels) ==
    IF get_total_relationships(rels) = 0 THEN Zero
    ELSE [num |-> TotalStrength(rels, DOMAIN rels),
          den |-> get_total_relationships(rels)]

---------------------------------------------------------------------------
(* social_learning.rs: SocialLearningSystem *)

\* calculate_learning_effectiveness that looks at who takes part: an agent
\* learns from itself with the default effectiveness
calculate_learning_effectiveness_Familiar(source_agent, target_agent, interaction_type) ==
    IF source_agent = target_agent THEN 500
    ELSE CASE interaction_type = SIT_Mentorship       -> 900
           [] interaction_type = SIT_Teaching         -> 800
           [] interaction_type = SIT_Collaboration    -> 700
           [] interaction_type = SIT_KnowledgeSharing -> 600
           [] OTHER                                   -> 500

\* calculate_learning_effectiveness, in thousandths
calculate_learning_effectiveness(source_agent, target_agent, interaction_type) ==
    CASE interaction_type = SIT_Mentorship       -> 900
      [] interaction_type = SIT_Teaching         -> 800
      [] interaction_type = SIT_Collaboration    -> 700
      [] interaction_type = SIT_KnowledgeSharing -> 600
      [] OTHER                                   -> 500

\* process_interaction: the SocialLearningResult; learning_records is not written
process_interaction(source_agent, target_agent, interaction_type, context) ==
    LET effectiveness ==
            calculate_learning_effectiveness(source_agent, target_agent, interaction_type)
    IN  [learning_effectiveness |-> effectiveness,
         knowledge_gained |-> <<"Gained knowledge from", DisplayFmt(interaction_type),
                                "interaction">>,
         skill_improvements |-> <<"Communication">>,
         relationship_impact |-> (effectiveness * 5) \div 10]

\* get_learning_progress: the count of the agent's records and the first five
\* RecordsAfterInteraction that files the result under the source agent
RecordsAfterInteraction_Recorded(records, source_agent, result) ==
    [a \in DOMAIN records \cup {source_agent} |->
        IF a = source_agent THEN Append(GetOrEmpty(records, a), result)
        ELSE records[a]]

\* self.learning_records once process_interaction has returned: the body reads
\* its arguments and builds the result, and assigns no field of self
RecordsAfterInteraction(records, source_agent, result) == records

get_learning_progress(records, agent_id) ==
    LET mine == GetOrEmpty(records, agent_id)
    IN  [agent_id |-> agent_id, total_learning_events |-> Len(mine),
         skill_levels |-> << >>, knowledge_areas |-> << >>,
         recent_learning |-> SubSeq(mine, 1, IF Len(mine) < 5 THEN Len(mine) ELSE 5)]

\* values().map(|v| v.len()).sum() over a map of Vecs
RECURSIVE SumLen(_, _)
SumLen(m, keys) ==
    IF keys = {} THEN 0
    ELSE LET k == CHOOSE x \in keys : TRUE
         IN  Len(m[k]) + SumLen(m, keys \ {k})

\* get_total_learning_events
get_total_learning_events(records) == SumLen(records, DOMAIN records)

---------------------------------------------------------------------------
(* network_analyzer.rs: NetworkAnalyzer *)

\* AgentNetworkMetrics::new
NewMetrics(agent_id, t) ==
    [agent_id |-> agent_id, centrality |-> 0, betweenness |-> 0,
     clustering_coefficient |-> 0, influence_score |-> 0,
     active_relationships |-> 0, network_reach |-> 0, last_updated |-> t]

\* Impact without the match: every kind has the impact of the default arm
Impact_Flat(interaction_type) == 30

\* update_for_interaction: impact, in thousandths
Impact(interaction_type) ==
    CASE interaction_type = SIT_Collaboration    -> 100
      [] interaction_type = SIT_Mentorship       -> 80
      [] interaction_type = SIT_KnowledgeSharing -> 60
      [] OTHER                                   -> 30

\* f32::min
Min(x, y) == IF x < y THEN x ELSE y

\* update_for_interaction without the two min(1.0)
update_for_interaction_Uncapped(m, interaction_type, t) ==
    LET impact == Impact(interaction_type)
    IN  [m EXCEPT !.centrality = m.centrality + (impact * 5) \div 10,
                  !.influence_score = m.influence_score + impact,
                  !.active_relationships = m.active_relationships + 1,
                  !.last_updated = t]

\* AgentNetworkMetrics::update_for_interaction
update_for_interaction(m, interaction_type, t) ==
    LET impact == Impact(interaction_type)
    IN  [m EXCEPT !.centrality = Min(m.centrality + (impact * 5) \div 10, 1000),
                  !.influence_score = Min(m.influence_score + impact, 1000),
                  !.active_relationships = m.active_relationships + 1,
                  !.last_updated = t]

\* TouchMetrics that starts a new map with the touched agent alone
TouchMetrics_Replacing(metrics, agent, interaction_type, t) ==
    LET before == IF agent \in DOMAIN metrics THEN metrics[agent]
                  ELSE NewMetrics(agent, t)
    IN  [x \in {agent} |-> update_for_interaction(before, interaction_type, t)]

\* network_metrics.entry(agent).or_insert_with(|| AgentNetworkMetrics::new(agent))
\* followed by update_for_interaction
TouchMetrics(metrics, agent, interaction_type, t) ==
    LET before == IF agent \in DOMAIN metrics THEN metrics[agent]
                  ELSE NewMetrics(agent, t)
    IN  [x \in DOMAIN metrics \cup {agent} |->
            IF x = agent THEN update_for_interaction(before, interaction_type, t)
            ELSE metrics[x]]

\* update_network_metrics that leaves the target out
update_network_metrics_SourceOnly(metrics, source_agent, target_agent, interaction_type, t) ==
    TouchMetrics(metrics, source_agent, interaction_type, t)

\* update_network_metrics(source_agent, target_agent, interaction_type)
update_network_metrics(metrics, source_agent, target_agent, interaction_type, t) ==
    TouchMetrics(TouchMetrics(metrics, source_agent, interaction_type, t),
                 target_agent, interaction_type, t)

\* get_agent_metrics that answers with a fresh record whatever is stored
get_agent_metrics_Fresh(metrics, agent_id, t) == NewMetrics(agent_id, t)

\* get_agent_metrics: the stored record, or a fresh one that is not inserted
get_agent_metrics(metrics, agent_id, t) ==
    IF agent_id \in DOMAIN metrics THEN metrics[agent_id] ELSE NewMetrics(agent_id, t)

\* the InfluentialAgent literal of get_most_influential_agents
InfluentialAgent(m) ==
    [agent_id |-> m.agent_id, influence_score |-> m.influence_score,
     centrality |-> m.centrality, active_relationships |-> m.active_relationships]

\* Iterator::take(n) on a Vec
Take(seq, n) == SubSeq(seq, 1, Min(n, Len(seq)))

\* the orders in which sort_by can leave the agents of todo: the map is read
\* in the order of HashMap::iter(), which is unspecified, and the stable sort
\* on descending influence_score keeps equal scores in that order, so every
\* order that is descending in influence_score is possible
RECURSIVE DescendingOrders(_, _)
DescendingOrders(metrics, todo) ==
    IF todo = {} THEN {<< >>}
    ELSE LET top == {a \in todo : \A b \in todo :
                        metrics[a].influence_score >= metrics[b].influence_score}
         IN  UNION {{<<a>> \o rest : rest \in DescendingOrders(metrics, todo \ {a})} :
                        a \in top}

\* get_most_influential_agents without take(10)
get_most_influential_agents_Uncut(metrics) ==
    {[i \in 1..Len(o) |-> InfluentialAgent(metrics[o[i]])] :
        o \in DescendingOrders(metrics, DOMAIN metrics)}

\* get_most_influential_agents: the entries of the map, sorted descending by
\* influence_score, cut to ten; the set of the possible results
get_most_influential_agents(metrics) ==
    {Take([i \in 1..Len(o) |-> InfluentialAgent(metrics[o[i]])], 10) :
        o \in DescendingOrders(metrics, DOMAIN metrics)}

\* get_network_impact: a fixed vector, in thousandths
get_network_impact(source_agent, target_agent) ==
    [centrality_change |-> 10, clustering_change |-> 5,
     betweenness_change |-> 8, influence_change |-> 20]

---------------------------------------------------------------------------
(* lib.rs: SocialEngine *)

\* BuildInteraction with the two participants in the wrong order
BuildInteraction_Swapped(source_agent, target_agent, interaction_type, context, t) ==
    [timestamp |-> t,
     participants |-> <<target_agent, source_agent>>,
     interaction_type |-> DebugFmt(interaction_type),
     content |-> context,
     outcome |-> "Successful"]

\* BuildInteraction that reports the interaction as failed
BuildInteraction_Failed(source_agent, target_agent, interaction_type, context, t) ==
    [timestamp |-> t,
     participants |-> <<source_agent, target_agent>>,
     interaction_type |-> DebugFmt(interaction_type),
     content |-> context,
     outcome |-> "Failed"]

\* BuildInteraction that names an agent once when source and target are the same
BuildInteraction_Deduplicated(source_agent, target_agent, interaction_type, context, t) ==
    [timestamp |-> t,
     participants |-> IF source_agent = target_agent
                      THEN <<source_agent>>
                      ELSE <<source_agent, target_agent>>,
     interaction_type |-> DebugFmt(interaction_type),
     content |-> context,
     outcome |-> "Successful"]

\* the AgentInteraction literal of process_social_interaction
BuildInteraction(source_agent, target_agent, interaction_type, context, t) ==
    [timestamp |-> t,
     participants |-> <<source_agent, target_agent>>,
     interaction_type |-> DebugFmt(interaction_type),
     content |-> context,
     outcome |-> "Successful"]

\* (relationship_update.new_strength - relationship_update.old_strength).abs()
RelationshipImpact(relationship_update) ==
    Abs(relationship_update.new_strength - relationship_update.old_strength)

\* NewSocialEvent that takes the learning result's relationship_impact
NewSocialEvent_LearningImpact(source_agent, target_agent, interaction_type, context, t, learning_result, relationship_update) ==
    [source_agent |-> source_agent, target_agent |-> target_agent,
     interaction_type |-> interaction_type, context |-> context, timestamp |-> t,
     learning_outcome |-> learning_result,
     relationship_impact |-> learning_result.relationship_impact]

\* the SocialEvent literal of process_social_interaction
NewSocialEvent(source_agent, target_agent, interaction_type, context, t, learning_result, relationship_update) ==
    [source_agent |-> source_agent, target_agent |-> target_agent,
     interaction_type |-> interaction_type, context |-> context, timestamp |-> t,
     learning_outcome |-> learning_result,
     relationship_impact |-> RelationshipImpact(relationship_update)]

\* calculate_social_influence: connection_multiplier, in tenths
ConnectionMultiplier(connection_type) ==
    CASE connection_type = CT_Mentorship    -> 12
      [] connection_type = CT_Collaboration -> 11
      [] connection_type = CT_Professional  -> 10
      [] connection_type = CT_Learning      -> 8
      [] connection_type = CT_Friendship    -> 9
      [] connection_type = CT_DataSharing   -> 7
      [] connection_type = CT_Consultation  -> 8
      [] connection_type = CT_Competition   -> 6

\* relationships.iter().map(|r| r.strength * connection_multiplier).sum(),
\* in ten-thousandths
RECURSIVE RelationshipInfluence(_)
RelationshipInfluence(list) ==
    IF list = << >> THEN 0
    ELSE Head(list).strength * ConnectionMultiplier(Head(list).connection_type)
         + RelationshipInfluence(Tail(list))

\* the events that pass both filters of calculate_social_influence: the agent
\* is source or target, and (Utc::now() - e.timestamp).num_hours() < 24
RecentEvents(events, agent_id, t) ==
    {i \in 1..Len(events) :
        /\ events[i].source_agent = agent_id \/ events[i].target_agent = agent_id
        /\ t - events[i].timestamp < 24}

\* RecentActivity with the age filter forgotten: every event of the agent counts
RecentActivity_AnyAge(events, agent_id, t) ==
    Cardinality({i \in 1..Len(events) :
                    events[i].source_agent = agent_id
                    \/ events[i].target_agent = agent_id}) * 1000

\* recent_activity: count() as f32 * 0.1, in ten-thousandths
RecentActivity(events, agent_id, t) ==
    Cardinality(RecentEvents(events, agent_id, t)) * 1000

\* calculate_social_influence(agent_id), in ten-thousandths
calculate_social_influence(rels, metrics, events, agent_id, t) ==
    LET relationships_ == get_agent_relationships(rels, agent_id)
        network_metrics_ == get_agent_metrics(metrics, agent_id, t)
        relationship_influence == RelationshipInfluence(relationships_)
        network_influence == network_metrics_.centrality * 3
                             + network_metrics_.betweenness * 2
        recent_activity == RecentActivity(events, agent_id, t)
    IN  Min(relationship_influence + network_influence + recent_activity, 10000)

\* get_agent_network(agent_id)
get_agent_network(rels, records, metrics, events, agent_id, t) ==
    [agent_id |-> agent_id,
     relationships |-> get_agent_relationships(rels, agent_id),
     learning_progress |-> get_learning_progress(records, agent_id),
     network_metrics |-> get_agent_metrics(metrics, agent_id, t),
     social_influence |-> calculate_social_influence(rels, metrics, events, agent_id, t)]

\* a Uuid::new_v4() handed out in a result: no agent's identifier
FreshUuid == "Uuid::new_v4()"

\* recommend_connections: one fixed entry; potential_benefit in ten-thousandths,
\* confidence in thousandths
recommend_connections(agent_id) ==
    << [recommendation_type |-> "NewConnection", target_agent |-> FreshUuid,
        reason |-> "Complementary network position",
        potential_benefit |-> 7000, confidence |-> 600] >>

\* recommend_learning_opportunities: one fixed entry
recommend_learning_opportunities(agent_id) ==
    << [recommendation_type |-> "LearningOpportunity", target_agent |-> FreshUuid,
        reason |-> "Complementary skills",
        potential_benefit |-> 8000, confidence |-> 700] >>

\* recommend_collaborations with the strength compared by >=
RECURSIVE recommend_collaborations_AtLeast(_)
recommend_collaborations_AtLeast(list) ==
    IF list = << >> THEN << >>
    ELSE LET relationship == Head(list)
             rest == recommend_collaborations_AtLeast(Tail(list))
         IN  IF /\ relationship.connection_type = CT_Collaboration
                /\ relationship.strength >= 600
             THEN << [recommendation_type |-> "Collaboration",
                      target_agent |-> relationship.other_agent_id,
                      reason |-> "Strong collaboration history and complementary skills",
                      potential_benefit |-> relationship.strength * 8,
                      confidence |-> 850] >> \o rest
             ELSE rest

\* recommend_collaborations: one entry per Collaboration record stronger than 0.6
RECURSIVE recommend_collaborations(_)
recommend_collaborations(list) ==
    IF list = << >> THEN << >>
    ELSE LET relationship == Head(list)
             rest == recommend_collaborations(Tail(list))
         IN  IF /\ relationship.connection_type = CT_Collaboration
                /\ relationship.strength > 600
             THEN << [recommendation_type |-> "Collaboration",
                      target_agent |-> relationship.other_agent_id,
                      reason |-> "Strong collaboration history and complementary skills",
                      potential_benefit |-> relationship.strength * 8,
                      confidence |-> 850] >> \o rest
             ELSE rest

\* one step of the stable sort: x goes behind every entry whose
\* potential_benefit is not smaller
RECURSIVE InsertByBenefit(_, _)
InsertByBenefit(sorted, x) ==
    IF sorted = << >> THEN << x >>
    ELSE IF Head(sorted).potential_benefit >= x.potential_benefit
         THEN << Head(sorted) >> \o InsertByBenefit(Tail(sorted), x)
         ELSE << x >> \o sorted

\* recommendations.sort_by(|a, b| b.potential_benefit.partial_cmp(&a...)): the
\* stable sort of Vec, descending
RECURSIVE SortByBenefit(_, _)
SortByBenefit(sorted, todo) ==
    IF todo = << >> THEN sorted
    ELSE SortByBenefit(InsertByBenefit(sorted, Head(todo)), Tail(todo))

\* get_social_recommendations(agent_id)
get_social_recommendations(rels, agent_id) ==
    SortByBenefit(<< >>,
        recommend_connections(agent_id)
        \o recommend_learning_opportunities(agent_id)
        \o recommend_collaborations(get_agent_relationships(rels, agent_id)))

\* network_density that divides whenever there is an agent
network_density_NoGuard(total_relationships, total_agents) ==
    IF total_agents > 0
    THEN [num |-> total_relationships * 2, den |-> total_agents * (total_agents - 1)]
    ELSE Zero

\* network_density: 0.0 for at most one agent, else total_relationships as f32
\* / ((total_agents * (total_agents - 1)) as f32 / 2.0), as a fraction
network_density(total_relationships, total_agents) ==
    IF total_agents > 1
    THEN [num |-> total_relationships * 2, den |-> total_agents * (total_agents - 1)]
    ELSE Zero

\* get_collaboration_clusters: one fixed cluster of two fresh identifiers
get_collaboration_clusters ==
    << [cluster_id |-> FreshUuid, agents |-> <<FreshUuid, FreshUuid>>,
        collaboration_strength |-> 800,
        focus_areas |-> <<"AI Development", "Research">>] >>

\* get_network_analytics(), for one order of the influential agents
get_network_analytics(rels, records, most_influential_agents) ==
    [total_agents |-> get_total_agents(rels),
     total_relationships |-> get_total_relationships(rels),
     network_density |-> network_density(get_total_relationships(rels),
                                         get_total_agents(rels)),
     learning_events |-> get_total_learning_events(records),
     average_relationship_strength |-> get_average_relationship_strength(rels),
     most_influential_agents |-> most_influential_agents,
     collaboration_clusters |-> get_collaboration_clusters]

---------------------------------------------------------------------------
(* relationship_manager.rs: AgentRelationship::calculate_dynamic_strength *)

\* f32::max
Max(x, y) == IF x > y THEN x ELSE y

\* chrono::Duration::num_days() of a span given in hours: the whole days,
\* truncated toward zero
NumDays(hours) == IF hours >= 0 THEN hours \div 24 ELSE -((-hours) \div 24)

\* calculate_dynamic_strength: type_modifier, in tenths
DynamicTypeModifier(connection_type) ==
    CASE connection_type = CT_Friendship    -> 12
      [] connection_type = CT_Collaboration -> 11
      [] connection_type = CT_Mentorship    -> 10
      [] connection_type = CT_Professional  -> 9
      [] connection_type = CT_Learning      -> 8
      [] connection_type = CT_Competition   -> 4
      [] connection_type = CT_DataSharing   -> 9
      [] connection_type = CT_Consultation  -> 8

\* calculate_dynamic_strength without the floor of the decay factor
calculate_dynamic_strength_NoFloor(r, t) ==
    LET days_since_last_interaction == NumDays(t - r.last_interaction)
        decay_factor == 100 - days_since_last_interaction
        frequency_boost == Min(r.interaction_count * 1000, 20000)
    IN  Clamp((r.strength * decay_factor + frequency_boost)
                  * DynamicTypeModifier(r.connection_type), 0, 1000000)

\* calculate_dynamic_strength(&self) with Utc::now() = t, in millionths:
\* decay_factor in hundredths, the decayed strength and frequency_boost in
\* hundred-thousandths
calculate_dynamic_strength(r, t) ==
    LET days_since_last_interaction == NumDays(t - r.last_interaction)
        decay_factor == 100 - days_since_last_interaction
        frequency_boost == Min(r.interaction_count * 1000, 20000)
    IN  Clamp((r.strength * Max(decay_factor, 50) + frequency_boost)
                  * DynamicTypeModifier(r.connection_type), 0, 1000000)

\* AfterRecompute that stores the value computed as the new strength
AfterRecompute_Applied(r, value) == [r EXCEPT !.strength = value \div 1000]

\* the record after calculate_dynamic_strength(&self) returned value: the
\* method borrows the record shared and assigns to a local copy of strength
AfterRecompute(r, value) == r

---------------------------------------------------------------------------
(* The state machine *)

NoLearningResult ==
    [learning_effectiveness |-> 0, knowledge_gained |-> <<>>,
     skill_improvements |-> <<>>, relationship_impact |-> 0]

NoInteraction ==
    [timestamp |-> 0, participants |-> <<>>, interaction_type |-> "",
     content |-> "", outcome |-> ""]

\* no process_social_interaction call is in flight
NoCall ==
    [source_agent |-> "", target_agent |-> "", interaction_type |-> "",
     context |-> "", interaction |-> NoInteraction,
     relationship_update |-> NoUpdate, learning_result |-> NoLearningResult]

NoReturn ==
    [op |-> "", ok |-> TRUE, error |-> NoError, args |-> 0, value |-> NoUpdate]

\* SocialEngine::new(): every store is empty
Init ==
    /\ relationships = << >>
    /\ connection_history = << >>
    /\ learning_records = << >>
    /\ network_metrics = << >>
    /\ social_events = << >>
    /\ now = 0
    /\ pc = "idle"
    /\ call = NoCall
    /\ ret = NoReturn

\* Utc::now() moves on between two calls
Tick ==
    /\ pc = "idle"
    /\ now + HoursPerTick <= MaxTicks * HoursPerTick
    /\ now' = now + HoursPerTick
    /\ UNCHANGED <<relationships, connection_history, learning_records,
                   network_metrics, social_events, pc, call, ret>>

\* relationship_manager.update_relationship(&interaction), called on the pub
\* field of the engine by a caller that built the interaction itself
UpdateRelationship(interaction) ==
    /\ pc = "idle"
    /\ LET r == update_relationship(relationships, connection_history, interaction, now)
       IN  /\ relationships' = r.relationships
           /\ connection_history' = r.connection_history
           /\ ret' = [op |-> "update_relationship", ok |-> r.ok, error |-> r.error,
                      args |-> Len(interaction.participants), value |-> r.value]
    /\ UNCHANGED <<learning_records, network_metrics, social_events, now, pc, call>>

\* network_analyzer.update_network_metrics(source, target, kind), called on the
\* pub field of the engine; it returns Ok(()), and ret keeps the arguments
CallUpdateNetworkMetrics(source_agent, target_agent, interaction_type) ==
    /\ pc = "idle"
    /\ network_metrics' = update_network_metrics(network_metrics, source_agent,
                              target_agent, interaction_type, now)
    /\ ret' = [op |-> "update_network_metrics", ok |-> TRUE, error |-> NoError,
               args |-> <<source_agent, target_agent, interaction_type>>,
               value |-> NoUpdate]
    /\ UNCHANGED <<relationships, connection_history, learning_records,
                   social_events, now, pc, call>>

\* process_social_interaction, lines 51-61: the interaction is built and handed
\* to the relationship store; `?` returns its error to the caller
ProcessSocialInteraction(source_agent, target_agent, interaction_type, context) ==
    /\ pc = "idle"
    /\ LET interaction == BuildInteraction(source_agent, target_agent,
                                           interaction_type, context, now)
           r == update_relationship(relationships, connection_history, interaction, now)
       IN  /\ relationships' = r.relationships
           /\ connection_history' = r.connection_history
           /\ IF r.ok
              THEN /\ pc' = "learning"
                   /\ call' = [source_agent |-> source_agent,
                               target_agent |-> target_agent,
                               interaction_type |-> interaction_type,
                               context |-> context,
                               interaction |-> interaction,
                               relationship_update |-> r.value,
                               learning_result |-> NoLearningResult]
                   /\ ret' = ret
              ELSE /\ pc' = "idle"
                   /\ call' = NoCall
                   /\ ret' = [op |-> "process_social_interaction", ok |-> FALSE,
                              error |-> r.error,
                              args |-> 2,
                              value |-> NoUpdate]
    /\ UNCHANGED <<learning_records, network_metrics, social_events, now>>

\* process_social_interaction, lines 63-69: social_learning_system.process_interaction
ProcessLearning ==
    /\ pc = "learning"
    /\ call' = [call EXCEPT !.learning_result =
                    process_interaction(call.source_agent, call.target_agent,
                                        call.interaction_type, call.context)]
    /\ learning_records' = RecordsAfterInteraction(learning_records,
                                 call.source_agent, call'.learning_result)
    /\ pc' = "metrics"
    /\ UNCHANGED <<relationships, connection_history,
                   network_metrics, social_events, now, ret>>

\* process_social_interaction, lines 71-76: network_analyzer.update_network_metrics
UpdateNetworkMetrics ==
    /\ pc = "metrics"
    /\ network_metrics' = update_network_metrics(network_metrics, call.source_agent,
                              call.target_agent, call.interaction_type, now)
    /\ pc' = "event"
    /\ UNCHANGED <<relationships, connection_history, learning_records,
                   social_events, now, call, ret>>

\* process_social_interaction, lines 78-95: the SocialEvent is pushed and the
\* composite result returned
RecordSocialEvent ==
    /\ pc = "event"
    /\ social_events' = Append(social_events,
           NewSocialEvent(call.source_agent, call.target_agent, call.interaction_type,
                          call.context, now, call.learning_result,
                          call.relationship_update))
    /\ ret' = [op |-> "process_social_interaction", ok |-> TRUE, error |-> NoError,
               args |-> 2,
               value |-> [relationship_update |-> call.relationship_update,
                          learning_result |-> call.learning_result,
                          network_impact |-> get_network_impact(call.source_agent,
                                                                call.target_agent)]]
    /\ pc' = "idle"
    /\ call' = NoCall
    /\ UNCHANGED <<relationships, connection_history, learning_records,
                   network_metrics, now>>

\* NoCallInFlight that lets a reader in at any point of a call
NoCallInFlight_Ignored == TRUE

\* A query borrows the engine as &self while process_social_interaction holds
\* it as &mut self from its first statement to its return, and none of the
\* awaits inside suspends: a query finds no call in flight
NoCallInFlight == pc = "idle"

\* get_agent_network(agent_id): the three maps are looked up with get(&agent_id)
\* and the event log is iterated
GetAgentNetwork(agent_id) ==
    /\ NoCallInFlight
    /\ ret' = [op |-> "get_agent_network", ok |-> TRUE, error |-> NoError,
               args |-> <<agent_id>>,
               value |-> get_agent_network(relationships, learning_records,
                             network_metrics, social_events, agent_id, now)]
    /\ relationships' = AfterGet(relationships, agent_id)
    /\ learning_records' = AfterGet(learning_records, agent_id)
    /\ network_metrics' = AfterGet(network_metrics, agent_id)
    /\ UNCHANGED <<connection_history, social_events, now, pc, call>>

\* get_social_recommendations(agent_id); its get_agent_network result is
\* dropped, and recommend_collaborations looks the agent's list up once more
GetSocialRecommendations(agent_id) ==
    /\ NoCallInFlight
    /\ ret' = [op |-> "get_social_recommendations", ok |-> TRUE, error |-> NoError,
               args |-> <<agent_id>>,
               value |-> get_social_recommendations(relationships, agent_id)]
    /\ relationships' = AfterGet(AfterGet(relationships, agent_id), agent_id)
    /\ learning_records' = AfterGet(learning_records, agent_id)
    /\ network_metrics' = AfterGet(network_metrics, agent_id)
    /\ UNCHANGED <<connection_history, social_events, now, pc, call>>

\* social_learning_system.process_interaction(source, target, &kind, context),
\* called on the pub field of the engine; learning_records is not written
CallProcessInteraction(source_agent, target_agent, interaction_type, context) ==
    /\ pc = "idle"
    /\ ret' = [op |-> "process_interaction", ok |-> TRUE, error |-> NoError,
               args |-> <<source_agent, target_agent, interaction_type, context>>,
               value |-> process_interaction(source_agent, target_agent,
                                             interaction_type, context)]
    /\ learning_records' = RecordsAfterInteraction(learning_records,
                                 source_agent, ret'.value)
    /\ UNCHANGED <<relationships, connection_history,
                   network_metrics, social_events, now, pc, call>>

\* Utc::now() moves on by DaysPerLeap days
PassDays ==
    /\ pc = "idle"
    /\ now + 24 * DaysPerLeap <= 24 * DaysPerLeap * MaxLeaps + 24
    /\ now' = now + 24 * DaysPerLeap
    /\ UNCHANGED <<relationships, connection_history, learning_records,
                   network_metrics, social_events, pc, call, ret>>

\* relationships[agent_id][i].calculate_dynamic_strength(), called on a
\* record of the pub ledger; ret keeps the record called on and the clock
\* reading of the call
CalculateDynamicStrength(agent_id, i) ==
    /\ pc = "idle"
    /\ agent_id \in DOMAIN relationships
    /\ i \in 1..Len(relationships[agent_id])
    /\ LET value == calculate_dynamic_strength(relationships[agent_id][i], now)
       IN  /\ ret' = [op |-> "calculate_dynamic_strength", ok |-> TRUE,
                      error |-> NoError, args |-> <<agent_id, i, now>>,
                      value |-> value]
           /\ relationships' =
                 [relationships EXCEPT ![agent_id][i] = AfterRecompute(@, value)]
    /\ UNCHANGED <<connection_history, learning_records, network_metrics,
                   social_events, now, pc, call>>

\* network_analyzer.get_most_influential_agents(), called on the pub field of
\* the engine
GetMostInfluentialAgents ==
    /\ NoCallInFlight
    /\ \E list \in get_most_influential_agents(network_metrics) :
          ret' = [op |-> "get_most_influential_agents", ok |-> TRUE,
                  error |-> NoError, args |-> << >>, value |-> list]
    /\ UNCHANGED <<relationships, connection_history, learning_records,
                   network_metrics, social_events, now, pc, call>>

\* get_network_analytics()
GetNetworkAnalytics ==
    /\ NoCallInFlight
    /\ \E most_influential_agents \in get_most_influential_agents(network_metrics) :
          ret' = [op |-> "get_network_analytics", ok |-> TRUE, error |-> NoError,
                  args |-> << >>,
                  value |-> get_network_analytics(relationships, learning_records,
                                                  most_influential_agents)]
    /\ UNCHANGED <<relationships, connection_history, learning_records,
                   network_metrics, social_events, now, pc, call>>

---------------------------------------------------------------------------
(* Spec: the orchestrator, driven from an empty engine *)

\* the interaction kinds submitted: one of each class the code distinguishes
KindInputs ==
    {SIT_Collaboration, SIT_Mentorship, SIT_KnowledgeSharing, SIT_Teaching,
     SIT_CasualChat}

ContextInputs == {"standup"}

Next ==
    \/ \E source_agent \in Agents, target_agent \in Agents,
          interaction_type \in KindInputs, context \in ContextInputs :
          /\ Len(social_events) < MaxCalls
          /\ ProcessSocialInteraction(source_agent, target_agent,
                                      interaction_type, context)
    \/ ProcessLearning
    \/ UpdateNetworkMetrics
    \/ RecordSocialEvent

Spec == Init /\ [][Next]_vars

---------------------------------------------------------------------------
(* SpecLedger: the relationship store, called directly.  The ledger is a pub  *)
(* field of a pub struct whose records derive Deserialize, so a caller can    *)
(* start from a ledger that already holds a pair of any kind.                 *)

SeedStrengths == {50, 900, 950}
SeedCounts == {9, 10}

\* alice -> bob with the given kind, strength and count, and its mirror; and a
\* fresh pair bob <-> carol that no call of SpecLedger names
SeedLedger(connection_type, strength, interaction_count) ==
    [a \in Agents |->
        CASE a = "alice" ->
                << [NewRelationship("alice", "bob", 0) EXCEPT
                       !.connection_type = connection_type,
                       !.strength = strength,
                       !.interaction_count = interaction_count] >>
          [] a = "bob" ->
                << NewRelationship("bob", "alice", 0),
                   NewRelationship("bob", "carol", 0) >>
          [] a = "carol" ->
                << NewRelationship("carol", "bob", 0) >>]

InitLedger ==
    /\ relationships \in
          {<< >>} \cup {SeedLedger(k, s, c) :
                           k \in ConnectionType, s \in SeedStrengths, c \in SeedCounts}
    /\ connection_history = << >>
    /\ learning_records = << >>
    /\ network_metrics = << >>
    /\ social_events = << >>
    /\ now = 0
    /\ pc = "idle"
    /\ call = NoCall
    /\ ret = NoReturn

\* the agents a direct caller names
CallerAgents == {"alice", "bob"}

\* the participant lists a caller may hand over: any list of up to
\* MaxParticipants of these agents
ParticipantLists == UNION {[1..n -> CallerAgents] : n \in 0..MaxParticipants}

\* the caller's own timestamp of the interaction, in hours
StampInputs == {5}

\* the labels a caller may write: exact, differently cased, and unlisted
LabelInputs == {"collaboration", "competition", "Collaboration"}

DirectInteractions ==
    {[timestamp |-> t, participants |-> p, interaction_type |-> l,
      content |-> "", outcome |-> o] :
        t \in StampInputs, p \in ParticipantLists, l \in LabelInputs,
        o \in InteractionOutcome}

\* A failed call changes nothing but the value returned, so a run is followed
\* up to its first failed call.
NextLedger ==
    \E interaction \in DirectInteractions :
        /\ ret.ok
        /\ Len(connection_history) < MaxUpdates
        /\ UpdateRelationship(interaction)

SpecLedger == InitLedger /\ [][NextLedger]_vars

---------------------------------------------------------------------------
(* SpecRatchet: one seeded record alice -> bob of any kind, just below the    *)
(* promotion thresholds, updated several times with outcomes that raise and   *)
(* lower its strength across 0.9.                                             *)

RatchetStrengths == {850}

InitRatchet ==
    /\ relationships \in
          {SeedLedger(k, s, c) :
              k \in ConnectionType, s \in RatchetStrengths, c \in SeedCounts}
    /\ connection_history = << >>
    /\ learning_records = << >>
    /\ network_metrics = << >>
    /\ social_events = << >>
    /\ now = 0
    /\ pc = "idle"
    /\ call = NoCall
    /\ ret = NoReturn

\* Successful and Failed interactions between alice and bob, with a label of
\* modifier 1.5 and one of modifier 0.8
RatchetInteractions ==
    {[timestamp |-> t, participants |-> <<"alice", "bob">>, interaction_type |-> l,
      content |-> "", outcome |-> o] :
        t \in StampInputs, l \in {"collaboration", "competition"},
        o \in {"Successful", "Failed"}}

NextRatchet ==
    \E interaction \in RatchetInteractions :
        /\ Len(connection_history) < MaxRatchetUpdates
        /\ UpdateRelationship(interaction)

SpecRatchet == InitRatchet /\ [][NextRatchet]_vars

---------------------------------------------------------------------------
(* SpecQueries: the orchestrator with its three queries and a moving clock.   *)
(* A query changes nothing but the value returned, so a run is followed up to *)
(* its first query, after which only queries follow.                          *)

\* the (source, target) pairs submitted: an agent with itself, and the three
\* pairs of distinct agents
QueryPairs ==
    {<<"alice", "alice">>, <<"alice", "bob">>, <<"alice", "carol">>,
     <<"bob", "carol">>}

QueryOps == {"get_agent_network", "get_social_recommendations",
             "get_network_analytics"}

NextQueries ==
    \/ \E p \in QueryPairs :
          /\ ret.op \notin QueryOps
          /\ Len(connection_history) < MaxQueryCalls
          /\ ProcessSocialInteraction(p[1], p[2], SIT_Collaboration, "standup")
    \/ ProcessLearning
    \/ UpdateNetworkMetrics
    \/ RecordSocialEvent
    \/ (ret.op \notin QueryOps /\ Tick)
    \/ \E agent_id \in Agents : GetAgentNetwork(agent_id)
    \/ \E agent_id \in Agents : GetSocialRecommendations(agent_id)
    \/ GetNetworkAnalytics

SpecQueries == Init /\ [][NextQueries]_vars

---------------------------------------------------------------------------
(* SpecScenario: one pair, one interaction kind, many calls *)

NextScenario ==
    \/ /\ Len(social_events) < MaxScenarioCalls
       /\ ProcessSocialInteraction("alice", "bob", SIT_Mentorship, "standup")
    \/ ProcessLearning
    \/ UpdateNetworkMetrics
    \/ RecordSocialEvent
    \/ Tick

SpecScenario == Init /\ [][NextScenario]_vars

---------------------------------------------------------------------------
(* SpecMetrics: the network analyzer, called directly from an empty engine.   *)
(* Its map is private, so every metrics record comes from these calls.        *)

\* the (source, target) pairs submitted: an agent with itself, and two agents
MetricsPairs == {<<"alice", "alice">>, <<"alice", "bob">>}

\* one interaction kind of each impact class
MetricsKinds ==
    {SIT_Collaboration, SIT_Mentorship, SIT_KnowledgeSharing, SIT_CasualChat}

NextMetrics ==
    \E p \in MetricsPairs, interaction_type \in MetricsKinds :
        /\ "alice" \in DOMAIN network_metrics =>
               network_metrics["alice"].active_relationships < MaxMetricsTouches
        /\ CallUpdateNetworkMetrics(p[1], p[2], interaction_type)

SpecMetrics == Init /\ [][NextMetrics]_vars

---------------------------------------------------------------------------
(* SpecCrowd: the network analyzer with more agents than the ten that          *)
(* get_most_influential_agents returns.  The map is private, so every record   *)
(* comes from update_network_metrics calls on an empty engine.  The calls go   *)
(* agent by agent, each agent with itself; an agent is called at most once     *)
(* more than the agent before it, and the next agent starts when the last one  *)
(* has been called at least as often as the agent before it and more often     *)
(* than the agent before that.  So scores differ along the crowd, at most      *)
(* three agents share one, and the orders of a result stay few.  A run is      *)
(* followed up to its first get_most_influential_agents.                       *)

\* the identifiers of the crowd
Crowd == 101..(100 + MaxCrowd)

\* the calls update_network_metrics(a, a, kind) that agent a has had
Calls(metrics, a) ==
    IF a \in DOMAIN metrics THEN metrics[a].active_relationships \div 2 ELSE 0

\* agent a is the one the next call names
CrowdTurn(a) ==
    LET last == 100 + Cardinality(DOMAIN network_metrics)
    IN  \/ /\ a = last + 1
           /\ last = 100
        \/ /\ a = last + 1
           /\ Calls(network_metrics, last) >= Calls(network_metrics, last - 1)
           /\ Calls(network_metrics, last) >= Calls(network_metrics, last - 2) + 1
        \/ /\ a = last
           /\ Calls(network_metrics, last) <= Calls(network_metrics, last - 1)

NextCrowd ==
    /\ ret.op # "get_most_influential_agents"
    /\ \/ \E a \in Crowd :
             CrowdTurn(a) /\ CallUpdateNetworkMetrics(a, a, SIT_CasualChat)
       \/ GetMostInfluentialAgents

SpecCrowd == Init /\ [][NextCrowd]_vars

---------------------------------------------------------------------------
(* SpecRecommend: get_social_recommendations on a ledger that holds            *)
(* Collaboration records.  No record that update_relationship creates ever     *)
(* becomes a Collaboration record, so the ledger (a pub field) starts with two *)
(* records of alice, each a Collaboration record, a Mentorship record one      *)
(* update short of its promotion to Collaboration, or a Professional record,   *)
(* with strengths at and on both sides of 0.6.  A run is followed up to its    *)
(* first query.                                                                *)

RecommendKinds == {CT_Collaboration, CT_Mentorship, CT_Professional}
RecommendStrengths == {600, 700, 950}

\* alice -> bob and alice -> carol as given, ten interactions each, and the
\* mirrors as get_or_create_relationship creates them
SeedPairs(kind_bob, strength_bob, kind_carol, strength_carol) ==
    [a \in Agents |->
        CASE a = "alice" ->
                << [NewRelationship("alice", "bob", 0) EXCEPT
                       !.connection_type = kind_bob, !.strength = strength_bob,
                       !.interaction_count = 10],
                   [NewRelationship("alice", "carol", 0) EXCEPT
                       !.connection_type = kind_carol, !.strength = strength_carol,
                       !.interaction_count = 10] >>
          [] a = "bob" -> << NewRelationship("bob", "alice", 0) >>
          [] a = "carol" -> << NewRelationship("carol", "alice", 0) >>]

InitRecommend ==
    /\ relationships \in
          {SeedPairs(kb, sb, kc, sc) :
              kb \in RecommendKinds, sb \in RecommendStrengths,
              kc \in RecommendKinds, sc \in RecommendStrengths}
    /\ connection_history = << >>
    /\ learning_records = << >>
    /\ network_metrics = << >>
    /\ social_events = << >>
    /\ now = 0
    /\ pc = "idle"
    /\ call = NoCall
    /\ ret = NoReturn

\* the updates submitted: alice with bob or with carol, labelled
\* "collaboration" (x1.5), Successful (+0.15) or Failed (-0.075)
RecommendInteractions ==
    {[timestamp |-> 5, participants |-> <<"alice", other>>,
      interaction_type |-> "collaboration", content |-> "", outcome |-> o] :
        other \in {"bob", "carol"}, o \in {"Successful", "Failed"}}

NextRecommend ==
    /\ ret.op \notin QueryOps
    /\ \/ \E interaction \in RecommendInteractions :
             /\ Len(connection_history) < MaxRecommendUpdates
             /\ UpdateRelationship(interaction)
       \/ \E agent_id \in {"alice", "bob"} : GetSocialRecommendations(agent_id)

SpecRecommend == InitRecommend /\ [][NextRecommend]_vars

---------------------------------------------------------------------------
(* SpecLearning: the learning tracker, called directly with every interaction  *)
(* kind, every pair of agents and two contexts, before and after calls of the  *)
(* engine.                                                                     *)

LearningContexts == {"standup", "review"}

\* the interaction kinds the engine is called with in SpecLearning
LearningKinds == {SIT_Mentorship, SIT_CasualChat}

NextLearning ==
    \/ \E source_agent \in Agents, target_agent \in Agents,
          interaction_type \in SocialInteractionType, context \in LearningContexts :
          CallProcessInteraction(source_agent, target_agent, interaction_type, context)
    \/ \E interaction_type \in LearningKinds :
          /\ Len(connection_history) < MaxLearningCalls
          /\ ProcessSocialInteraction("alice", "bob", interaction_type, "standup")
    \/ ProcessLearning
    \/ UpdateNetworkMetrics
    \/ RecordSocialEvent

SpecLearning == Init /\ [][NextLearning]_vars

---------------------------------------------------------------------------
(* SpecDynamic: calculate_dynamic_strength on the record alice -> bob of a     *)
(* ledger (pub field) that holds it with any kind, while hours and days pass   *)
(* and update_relationship sets last_interaction to the caller's timestamp,    *)
(* which may lie ahead of the clock.                                           *)

DynamicStrengths == {500, 1000}
DynamicCounts == {10, 25}

InitDynamic ==
    /\ relationships \in
          {SeedLedger(k, s, c) :
              k \in ConnectionType, s \in DynamicStrengths, c \in DynamicCounts}
    /\ connection_history = << >>
    /\ learning_records = << >>
    /\ network_metrics = << >>
    /\ social_events = << >>
    /\ now = 0
    /\ pc = "idle"
    /\ call = NoCall
    /\ ret = NoReturn

\* the caller's timestamps: five hours and sixty days after the start
DynamicStamps == {5, 1440}

DynamicInteractions ==
    {[timestamp |-> t, participants |-> <<"alice", "bob">>,
      interaction_type |-> "collaboration", content |-> "", outcome |-> o] :
        t \in DynamicStamps, o \in {"Successful", "Failed"}}

NextDynamic ==
    \/ \E interaction \in DynamicInteractions :
          /\ Len(connection_history) < MaxDynamicUpdates
          /\ UpdateRelationship(interaction)
    \/ CalculateDynamicStrength("alice", 1)
    \/ Tick
    \/ PassDays

SpecDynamic == InitDynamic /\ [][NextDynamic]_vars

---------------------------------------------------------------------------
(* SpecGrow: an empty engine on which one pair is updated up to MaxGrowUpdates *)
(* times, each time either by a direct update_relationship call (Successful,   *)
(* label "collaboration", +0.15) or by a process_social_interaction call       *)
(* (+0.10), so that the record passes both promotion thresholds.  A run is     *)
(* followed up to its first query.                                             *)

GrowInteraction ==
    [timestamp |-> 5, participants |-> <<"alice", "bob">>,
     interaction_type |-> "collaboration", content |-> "",
     outcome |-> "Successful"]

NextGrow ==
    /\ ret.op \notin QueryOps
    /\ \/ /\ Len(connection_history) < MaxGrowUpdates
          /\ UpdateRelationship(GrowInteraction)
       \/ /\ Len(connection_history) < MaxGrowUpdates
          /\ ProcessSocialInteraction("alice", "bob", SIT_Mentorship, "standup")
       \/ ProcessLearning
       \/ UpdateNetworkMetrics
       \/ RecordSocialEvent
       \/ GetSocialRecommendations("alice")

SpecGrow == Init /\ [][NextGrow]_vars

---------------------------------------------------------------------------
(* What the claims are stated with *)

\* every record of the ledger, with its place: <<owner, index>>
Places(rels) == UNION {{<<a, i>> : i \in 1..Len(rels[a])} : a \in DOMAIN rels}

\* the last entry of a non-empty log
Last(log) == log[Len(log)]

\* this step is a successful update_relationship: it appended a ConnectionEvent
UpdateDone == Len(connection_history') = Len(connection_history) + 1

\* the two participants of the update this step made, in call order
UpdatedFrom == Last(connection_history').agent1_id
UpdatedTo == Last(connection_history').agent2_id

\* the record at a place before this step: the stored one, or, for a record
\* this step created, the record as the spec says it is created (strength 0.1,
\* kind Professional, count 0)
Before(a, i) ==
    IF a \in DOMAIN relationships /\ i <= Len(relationships[a])
    THEN relationships[a][i]
    ELSE [relationships'[a][i] EXCEPT !.strength = 100,
                                      !.connection_type = CT_Professional,
                                      !.interaction_count = 0]

\* the sum of active_relationships over the agents of S
RECURSIVE SumActive(_, _)
SumActive(metrics, S) ==
    IF S = {} THEN 0
    ELSE LET a == CHOOSE x \in S : TRUE
         IN  metrics[a].active_relationships + SumActive(metrics, S \ {a})

\* how often update_for_interaction has run: it adds one to one counter
MetricsTouches == SumActive(network_metrics, DOMAIN network_metrics)

\* the promotion map as the spec states it
PromotionMap ==
    [k \in {CT_Professional, CT_Mentorship, CT_Competition, CT_DataSharing,
            CT_Consultation} |->
        CASE k = CT_Professional -> CT_Friendship
          [] k = CT_Mentorship   -> CT_Collaboration
          [] k = CT_Competition  -> CT_Professional
          [] k = CT_DataSharing  -> CT_Collaboration
          [] k = CT_Consultation -> CT_Mentorship]

---------------------------------------------------------------------------
(* The claims *)

\* C1: after any sequence of update_relationship calls (any outcome, any label,
\* any pair) every stored relationship record has a strength in [0, 1], and the
\* new_strength a call returns is in [0, 1].
C1_StrengthInUnitInterval ==
    /\ \A p \in Places(relationships) :
          /\ relationships[p[1]][p[2]].strength >= 0
          /\ relationships[p[1]][p[2]].strength <= 1000
    /\ (ret.op = "update_relationship" /\ ret.ok) =>
          (ret.value.new_strength >= 0 /\ ret.value.new_strength <= 1000)

\* C1 witness: a call whose delta would have carried the strength past 1.0
\* returned 1.0
C1_Witness ==
    /\ ret.op = "update_relationship" /\ ret.ok
    /\ ret.value.old_strength + Last(connection_history).strength_change > 1000
    /\ ret.value.new_strength = 1000

\* C2: in update_relationship the kind of a record changes during a call if and
\* only if it is the record the call updates and, after the delta and the count
\* increment, strength > 0.9 and count > 10 and the kind has a mapped
\* successor; the new kind is then the one the promotion map gives.  Kinds
\* without a successor (Collaboration, Friendship, Learning) never change.
C2_Step ==
    UpdateDone =>
        \A p \in Places(relationships') :
            LET before == Before(p[1], p[2])
                after  == relationships'[p[1]][p[2]]
                updated == after.interaction_count = before.interaction_count + 1
            IN  /\ (after.connection_type # before.connection_type) <=>
                      /\ updated
                      /\ after.strength > 900
                      /\ after.interaction_count > 10
                      /\ before.connection_type \in DOMAIN PromotionMap
                /\ (after.connection_type # before.connection_type) =>
                      after.connection_type = PromotionMap[before.connection_type]

\* C2: every step satisfies the promotion rule above (the kind of a record
\* changes iff the updated record passes both thresholds and has a successor)
C2_PromotionIffThreshold == [][C2_Step]_vars

\* C2 witness: a Consultation record was promoted to Mentorship (a Mentorship
\* record with count 11 and strength above 0.9 cannot have been Mentorship
\* before the call: it would have been promoted itself)
C2_Witness ==
    /\ ret.op = "update_relationship" /\ ret.ok
    /\ ret.value.connection_type = CT_Mentorship
    /\ ret.value.new_strength > 900
    /\ \E p \in Places(relationships) :
          /\ relationships[p[1]][p[2]].connection_type = CT_Mentorship
          /\ relationships[p[1]][p[2]].interaction_count = 11
          /\ relationships[p[1]][p[2]].strength > 900

\* the alice -> bob record of the scenario (the first alice holds)
ScenarioRecord == relationships["alice"][1]

\* C3 as claimed: in the scenario of 11 Successful Mentorship interactions
\* between one pair on an empty engine, the relationship is of kind Mentorship
\* up to the 10th interaction and of kind Collaboration after the 11th and
\* after the 12th.
C3_AsClaimed ==
    /\ Len(connection_history) = 10 => ScenarioRecord.connection_type = CT_Mentorship
    /\ Len(connection_history) \in {11, 12} =>
          ScenarioRecord.connection_type = CT_Collaboration

\* C3 as amended: the relationship is created with kind Professional, whatever
\* the interaction kind; it stays Professional up to the 10th interaction,
\* flips to Friendship at the 11th (count > 10, strength > 0.9) and a 12th
\* and any later interaction leaves it at Friendship.
C3_ProfessionalToFriendship ==
    LET n == Len(connection_history)
    IN  /\ n >= 1 => ScenarioRecord.interaction_count = n
        /\ n \in 1..10 => ScenarioRecord.connection_type = CT_Professional
        /\ n >= 11 => /\ ScenarioRecord.connection_type = CT_Friendship
                      /\ ScenarioRecord.strength > 900

\* C3 witness: the 12th interaction is done and the kind is Friendship
C3_Witness ==
    /\ pc = "idle" /\ Len(social_events) = 12
    /\ \A i \in 1..12 : social_events[i].interaction_type = SIT_Mentorship
    /\ ScenarioRecord.connection_type = CT_Friendship

\* C4 as claimed: on an empty engine process_social_interaction(X, Y,
\* Collaboration, context) with X # Y returns a relationship update with
\* old_strength 0.1 and new_strength 0.25.
C4_AsClaimed ==
    (/\ pc = "idle" /\ Len(social_events) = 1
     /\ ret.op = "process_social_interaction" /\ ret.ok
     /\ social_events[1].interaction_type = SIT_Collaboration
     /\ social_events[1].source_agent # social_events[1].target_agent)
    => /\ ret.value.relationship_update.old_strength = 100
       /\ ret.value.relationship_update.new_strength = 250

\* C5: when update_relationship is called for A # B and no A -> B record
\* exists, one A -> B and one B -> A record are added, both created with
\* strength 0.1, kind Professional and count 0; the delta of the call is then
\* applied to A -> B alone, so the call returns old_strength 0.1.
C5_Step ==
    (/\ UpdateDone
     /\ UpdatedFrom # UpdatedTo
     /\ \A i \in 1..Len(GetOrEmpty(relationships, UpdatedFrom)) :
           relationships[UpdatedFrom][i].other_agent_id # UpdatedTo)
    => LET A == UpdatedFrom
           B == UpdatedTo
           listA == relationships'[A]
           listB == relationships'[B]
           ab == listA[Len(listA)]
           ba == listB[Len(listB)]
           delta == Last(connection_history').strength_change
       IN  /\ A \in DOMAIN relationships' /\ B \in DOMAIN relationships'
           /\ Len(listA) = Len(GetOrEmpty(relationships, A)) + 1
           /\ Len(listB) = Len(GetOrEmpty(relationships, B)) + 1
           /\ ab.agent_id = A /\ ab.other_agent_id = B
           /\ ba.agent_id = B /\ ba.other_agent_id = A
           /\ ba.strength = 100 /\ ba.connection_type = CT_Professional
           /\ ba.interaction_count = 0
           /\ ret'.value.old_strength = 100
           /\ ab.strength = ret'.value.new_strength
           /\ ab.strength =
                 (IF 100 + delta < 0 THEN 0
                  ELSE IF 100 + delta > 1000 THEN 1000 ELSE 100 + delta)
           /\ ab.connection_type = CT_Professional
           /\ ab.interaction_count = 1

\* C5: every step that creates a pair creates both directions as stated above
C5_CreatesBothDirections == [][C5_Step]_vars

\* C5 witness: a call on an empty ledger created the pair and changed the
\* strength of the owning direction only
C5_Witness ==
    /\ ret.op = "update_relationship" /\ ret.ok
    /\ ret.value.agent1_id = "alice" /\ ret.value.agent2_id = "bob"
    /\ DOMAIN relationships = {"alice", "bob"}
    /\ Len(relationships["alice"]) = 1 /\ Len(relationships["bob"]) = 1
    /\ relationships["alice"][1].strength = 250
    /\ relationships["bob"][1].strength = 100

\* C6: a successful update_relationship call with participants (A, B) changes
\* no record but one record A -> B: every record that was stored before the
\* call and that is not the updated A -> B record keeps all its fields, and
\* what the call adds besides is untouched by the delta (count 0, strength
\* 0.1).  So B -> A changes only through a call that lists (B, A).
C6_Step ==
    UpdateDone =>
        /\ \A p \in Places(relationships) :
              relationships'[p[1]][p[2]] # relationships[p[1]][p[2]] =>
                  /\ relationships[p[1]][p[2]].agent_id = UpdatedFrom
                  /\ relationships[p[1]][p[2]].other_agent_id = UpdatedTo
        /\ Cardinality({p \in Places(relationships') :
                           relationships'[p[1]][p[2]] # Before(p[1], p[2])}) = 1
        /\ \A p \in Places(relationships') :
              relationships'[p[1]][p[2]] # Before(p[1], p[2]) =>
                  /\ relationships'[p[1]][p[2]].agent_id = UpdatedFrom
                  /\ relationships'[p[1]][p[2]].other_agent_id = UpdatedTo

\* C6: every step changes the record of the owning direction only, as stated
\* above
C6_OnlyOwningDirection == [][C6_Step]_vars

\* C6 witness: alice -> bob was updated while its mirror bob -> alice and the
\* pair bob <-> carol are as they were seeded
C6_Witness ==
    /\ ret.op = "update_relationship" /\ ret.ok
    /\ ret.value.agent1_id = "alice" /\ ret.value.agent2_id = "bob"
    /\ ret.value.new_strength # ret.value.old_strength
    /\ "carol" \in DOMAIN relationships
    /\ relationships["alice"][1].interaction_count \in {10, 11}
    /\ relationships["alice"][1].last_interaction = 5
    /\ relationships["bob"][1] = NewRelationship("bob", "alice", 0)
    /\ relationships["carol"][1] = NewRelationship("carol", "bob", 0)

\* C7 as claimed: update_relationship fails with an InvalidInteraction error
\* whenever the participant count is not two, and succeeds for two.
C7_AsClaimed ==
    ret.op = "update_relationship" =>
        /\ ret.args # 2 => (~ret.ok /\ ret.error.variant = "InvalidInteraction")
        /\ ret.args = 2 => ret.ok

\* C7 as amended: update_relationship fails with the error
\* IntelligenceError::Generic("Interaction must have exactly 2 participants")
\* whenever the participant count is not two (there is no InvalidInteraction
\* variant), and succeeds for every interaction with exactly two participants.
C7_GenericErrorIffNotTwo ==
    ret.op = "update_relationship" =>
        /\ ret.args # 2 =>
              /\ ~ret.ok
              /\ ret.error.variant = "Generic"
              /\ ret.error.variant \in IntelligenceError
              /\ ret.error.message = "Interaction must have exactly 2 participants"
        /\ ret.args = 2 => (ret.ok /\ ret.error.variant = "")

\* C7 witness: a call with three participants failed
C7_Witness ==
    ret.op = "update_relationship" /\ ret.args = 3 /\ ~ret.ok

\* C8: when update_relationship returns the participant-count error, the
\* relationship ledger and the connection-event log are exactly as before the
\* call.
C8_Step ==
    (ret'.op = "update_relationship" /\ ~ret'.ok) =>
        /\ relationships' = relationships
        /\ connection_history' = connection_history

\* C8: every step that returns the error leaves the ledger and the log alone
C8_ErrorMutatesNothing == [][C8_Step]_vars

\* C8 witness: a call failed on a ledger that holds records
C8_Witness ==
    /\ ret.op = "update_relationship" /\ ~ret.ok /\ ret.args = 1
    /\ Places(relationships) # {}

\* C9: within one process_social_interaction call the relationship store is
\* updated first, then the learning tracker runs, then the metrics are
\* updated, and only then is the SocialEvent appended; the interaction handed
\* to the relationship store has outcome Successful and the participants
\* (source, target) in that order.
C9_PipelineOrder ==
    LET done == Len(social_events)
        learnt == call.learning_result.learning_effectiveness > 0
    IN  /\ pc = "idle" =>
              /\ Len(connection_history) = done
              /\ MetricsTouches = 2 * done
        /\ pc # "idle" =>
              /\ Len(connection_history) = done + 1
              /\ Last(connection_history).agent1_id = call.source_agent
              /\ Last(connection_history).agent2_id = call.target_agent
              /\ call.interaction.outcome = "Successful"
              /\ call.interaction.participants =
                     <<call.source_agent, call.target_agent>>
              /\ call.relationship_update.agent1_id = call.source_agent
              /\ call.relationship_update.agent2_id = call.target_agent
        /\ pc = "learning" => (~learnt /\ MetricsTouches = 2 * done)
        /\ pc = "metrics"  => (learnt /\ MetricsTouches = 2 * done)
        /\ pc = "event"    => (learnt /\ MetricsTouches = 2 * (done + 1))

\* C9 witness: in a second call from alice to bob the relationship store and
\* the learning tracker have run and the metrics have not
C9_Witness ==
    /\ pc = "metrics" /\ Len(social_events) = 1
    /\ call.source_agent = "alice" /\ call.target_agent = "bob"
    /\ Len(connection_history) = 2
    /\ MetricsTouches = 2

\* C10: every successful process_social_interaction call appends exactly one
\* SocialEvent, whose relationship_impact is |new_strength - old_strength| of
\* the relationship update the call returns; the entries already in the log
\* stay as they are, and no other step of the call touches the log.
C10_Step ==
    IF pc = "event"
    THEN LET update == ret'.value.relationship_update
         IN  /\ ret'.op = "process_social_interaction" /\ ret'.ok
             /\ Len(social_events') = Len(social_events) + 1
             /\ SubSeq(social_events', 1, Len(social_events)) = social_events
             /\ Last(social_events').relationship_impact =
                    (IF update.new_strength >= update.old_strength
                     THEN update.new_strength - update.old_strength
                     ELSE update.old_strength - update.new_strength)
    ELSE social_events' = social_events

\* C10: every step keeps the social-event log append-only, one event per
\* returning call, with the impact stated above
C10_OneEventPerCall == [][C10_Step]_vars

\* C10 witness: the second call has appended its event, with impact 0.1
C10_Witness ==
    /\ pc = "idle" /\ ret.op = "process_social_interaction" /\ ret.ok
    /\ Len(social_events) = 2
    /\ social_events[2].relationship_impact = 100
    /\ ret.value.relationship_update.old_strength = 200
    /\ ret.value.relationship_update.new_strength = 300

\* the impact table as the spec states it, in thousandths
SpecImpact(interaction_type) ==
    IF interaction_type = SIT_Collaboration THEN 100
    ELSE IF interaction_type = SIT_Mentorship THEN 80
    ELSE IF interaction_type = SIT_KnowledgeSharing THEN 60
    ELSE 30

\* the metrics record of an agent before this step: the stored one, or the
\* all-zero record the spec says is created for an agent that has none
MetricsBefore(a) ==
    IF a \in DOMAIN network_metrics THEN network_metrics[a]
    ELSE [agent_id |-> a, centrality |-> 0, betweenness |-> 0,
          clustering_coefficient |-> 0, influence_score |-> 0,
          active_relationships |-> 0, network_reach |-> 0, last_updated |-> now]

\* this step is an update_network_metrics(source, target, kind) call that
\* applies the stated update times[a] times to agent a and leaves the agents
\* with times[a] = 0 alone
MetricsStep(source, target, kind, times) ==
    /\ DOMAIN network_metrics' = DOMAIN network_metrics \cup {source, target}
    /\ \A a \in DOMAIN network_metrics' :
          LET before == MetricsBefore(a)
              after  == network_metrics'[a]
              half   == (SpecImpact(kind) * 5) \div 10
              c == before.centrality + times[a] * half
              i == before.influence_score + times[a] * SpecImpact(kind)
          IN  IF times[a] = 0
              THEN after = network_metrics[a]
              ELSE /\ after.centrality = (IF c < 1000 THEN c ELSE 1000)
                   /\ after.influence_score = (IF i < 1000 THEN i ELSE 1000)
                   /\ after.active_relationships =
                          before.active_relationships + times[a]
                   /\ after.agent_id = a
                   /\ after.betweenness = before.betweenness
                   /\ after.clustering_coefficient = before.clustering_coefficient
                   /\ after.network_reach = before.network_reach

\* C11 as claimed: update_network_metrics(source, target, kind) creates an
\* all-zero record for each of the two agents that has none and then applies
\* centrality = min(centrality + impact*0.5, 1.0), influence_score =
\* min(influence_score + impact, 1.0), active_relationships + 1 once to the
\* source and to the target, whether or not they are the same agent; all other
\* agents are unchanged.
C11_AsClaimedStep ==
    LET source == ret'.args[1]
        target == ret'.args[2]
    IN  MetricsStep(source, target, ret'.args[3],
                    [a \in Agents |-> IF a \in {source, target} THEN 1 ELSE 0])

\* C11 as claimed: every update_network_metrics step is as stated above
C11_AsClaimed == [][C11_AsClaimedStep]_vars

\* C11 as amended: the update (impact 0.10 Collaboration, 0.08 Mentorship, 0.06
\* KnowledgeSharing, 0.03 otherwise) is applied once for the source and once
\* for the target: when they are two agents each record gets it once, and when
\* source = target the one record gets it twice (active_relationships + 2,
\* influence_score = min(influence_score + 2*impact, 1.0), centrality =
\* min(centrality + impact, 1.0)); missing records are created all-zero first
\* and all other agents are unchanged.
C11_Step ==
    LET source == ret'.args[1]
        target == ret'.args[2]
    IN  MetricsStep(source, target, ret'.args[3],
                    [a \in Agents |-> (IF a = source THEN 1 ELSE 0)
                                      + (IF a = target THEN 1 ELSE 0)])

\* C11: every update_network_metrics step applies the update once per
\* participant slot, as amended above
C11_OncePerParticipant == [][C11_Step]_vars

\* C11 witness: the twelfth Collaboration update of alice's record, made by a
\* call between alice and bob, left her influence_score capped at 1.0 (the
\* uncapped sum is 1.2) and bob's record below the cap
C11_Witness ==
    /\ ret.op = "update_network_metrics"
    /\ ret.args = <<"alice", "bob", SIT_Collaboration>>
    /\ network_metrics["alice"].active_relationships = 12
    /\ network_metrics["alice"].centrality = 600
    /\ network_metrics["alice"].influence_score = 1000
    /\ network_metrics["bob"].influence_score < 1000
    /\ network_metrics["bob"].active_relationships >= 1

\* C16: for every successful update_relationship call on (A, B) there is one
\* record A -> B, the one the call updated, such that the returned
\* old_strength is its strength before the call (0.1 if the call created it),
\* the returned new_strength is its strength after the call and the returned
\* kind is its kind after the call; for A # B it is the only A -> B record.
C16_Step ==
    UpdateDone =>
        LET A == UpdatedFrom
            B == UpdatedTo
            mine == {p \in Places(relationships') :
                        /\ p[1] = A
                        /\ relationships'[p[1]][p[2]].agent_id = A
                        /\ relationships'[p[1]][p[2]].other_agent_id = B}
            updated == {p \in mine :
                           relationships'[p[1]][p[2]].interaction_count =
                               Before(p[1], p[2]).interaction_count + 1}
        IN  /\ ret'.op = "update_relationship" /\ ret'.ok
            /\ ret'.value.agent1_id = A /\ ret'.value.agent2_id = B
            /\ Cardinality(updated) = 1
            /\ A # B => Cardinality(mine) = 1
            /\ \A p \in updated :
                  /\ ret'.value.old_strength = Before(p[1], p[2]).strength
                  /\ ret'.value.new_strength = relationships'[p[1]][p[2]].strength
                  /\ ret'.value.connection_type =
                         relationships'[p[1]][p[2]].connection_type

\* C16: every successful update returns the strength before, the strength
\* after and the kind after of the record it updated, as stated above
C16_ReturnsStoredValues == [][C16_Step]_vars

\* C16 witness: a call on a seeded Professional record of strength 0.9 and
\* count 10 returned old 0.9, new 1.0 and the promoted kind Friendship, which
\* are the values stored
C16_Witness ==
    /\ ret.op = "update_relationship" /\ ret.ok
    /\ ret.value.agent1_id = "alice" /\ ret.value.agent2_id = "bob"
    /\ ret.value.old_strength = 900 /\ ret.value.new_strength = 1000
    /\ ret.value.connection_type = CT_Friendship
    /\ relationships["alice"][1].strength = 1000
    /\ relationships["alice"][1].connection_type = CT_Friendship
    /\ relationships["alice"][1].interaction_count = 11

\* C17 as claimed: after any sequence of valid two-participant interactions
\* (the participants may be the same agent) the ledger holds at most one
\* record per ordered pair (owner, other), and whenever a record A -> B exists
\* a record B -> A exists.
C17_AsClaimed ==
    /\ \A p \in Places(relationships), q \in Places(relationships) :
          (/\ relationships[p[1]][p[2]].agent_id = relationships[q[1]][q[2]].agent_id
           /\ relationships[p[1]][p[2]].other_agent_id =
                  relationships[q[1]][q[2]].other_agent_id)
          => p = q
    /\ \A p \in Places(relationships) :
          \E q \in Places(relationships) :
              /\ relationships[q[1]][q[2]].agent_id =
                     relationships[p[1]][p[2]].other_agent_id
              /\ relationships[q[1]][q[2]].other_agent_id =
                     relationships[p[1]][p[2]].agent_id

\* the label in lower case (str::to_lowercase), for the labels a caller writes
ToLowercase(label) == IF label = "Collaboration" THEN "collaboration" ELSE label

\* the type modifier as the spec states it, in tenths: matched on the label
\* without regard to case
SpecTypeModifier(label) ==
    LET l == ToLowercase(label)
    IN  IF l = "collaboration" THEN 15
        ELSE IF l = "mentorship" THEN 13
        ELSE IF l = "competition" THEN 8
        ELSE IF l = "data_sharing" THEN 12
        ELSE IF l = "consultation" THEN 11
        ELSE 10

\* the base change as the spec states it, in hundredths
SpecBaseChange(outcome) ==
    IF outcome = "Successful" THEN 10
    ELSE IF outcome = "Partial" THEN 5
    ELSE IF outcome = "Failed" THEN -5
    ELSE 0

\* the interactions of a caller that make update_relationship take this step
StepInteractions ==
    {interaction \in DirectInteractions :
        LET r == update_relationship(relationships, connection_history,
                                     interaction, now)
        IN  /\ r.ok
            /\ r.relationships = relationships'
            /\ r.connection_history = connection_history'
            /\ r.value = ret'.value}

\* C18 as claimed: update_relationship changes the stored strength of the
\* owning-direction record to clamp(old + base_change(outcome) *
\* type_modifier(label), 0, 1), with base_change +0.10 / +0.05 / -0.05 / 0.00
\* for Successful / Partial / Failed / Pending and type_modifier matched
\* case-insensitively on the label (collaboration and Collaboration x1.5,
\* competition x0.8, anything unlisted x1.0).
C18_AsClaimedStep ==
    UpdateDone =>
        \A interaction \in StepInteractions :
            LET sum == ret'.value.old_strength
                       + SpecBaseChange(interaction.outcome)
                         * SpecTypeModifier(interaction.interaction_type)
                new == IF sum < 0 THEN 0 ELSE IF sum > 1000 THEN 1000 ELSE sum
                A == interaction.participants[1]
            IN  /\ ret'.value.new_strength = new
                /\ \E i \in 1..Len(relationships'[A]) :
                      /\ relationships'[A][i].other_agent_id =
                             interaction.participants[2]
                      /\ relationships'[A][i].strength = new
                      /\ Before(A, i).strength = ret'.value.old_strength

\* C18 as claimed: every update_relationship step changes the strength by the
\* case-insensitively matched delta, as stated above
C18_AsClaimed == [][C18_AsClaimedStep]_vars

\* C19: each successful update_relationship call increases the interaction
\* count of the one record it updates (owned by the first participant,
\* pointing at the second) by exactly 1 and leaves every other count as it
\* was; a failed call changes no count; every count is non-negative and no
\* step decreases one.
C19_Step ==
    /\ \A p \in Places(relationships) :
          /\ relationships[p[1]][p[2]].interaction_count >= 0
          /\ p \in Places(relationships')
          /\ relationships'[p[1]][p[2]].interaction_count >=
                 relationships[p[1]][p[2]].interaction_count
    /\ \A p \in Places(relationships') :
          relationships'[p[1]][p[2]].interaction_count >= 0
    /\ LET raised == {p \in Places(relationships') :
                         relationships'[p[1]][p[2]].interaction_count #
                             Before(p[1], p[2]).interaction_count}
       IN  IF UpdateDone
           THEN /\ Cardinality(raised) = 1
                /\ \A p \in raised :
                      /\ relationships'[p[1]][p[2]].interaction_count =
                             Before(p[1], p[2]).interaction_count + 1
                      /\ relationships'[p[1]][p[2]].agent_id = UpdatedFrom
                      /\ relationships'[p[1]][p[2]].other_agent_id = UpdatedTo
           ELSE raised = {}

\* C19: every step raises the count of the updated record by one and lowers
\* no count, as stated above
C19_CountGrowsByOne == [][C19_Step]_vars

\* C19 witness: a Failed interaction lowered the strength of the seeded record
\* alice -> bob and raised its count from 10 to 11
C19_Witness ==
    /\ ret.op = "update_relationship" /\ ret.ok
    /\ ret.value.agent1_id = "alice" /\ ret.value.agent2_id = "bob"
    /\ Last(connection_history).strength_change < 0
    /\ ret.value.new_strength < ret.value.old_strength
    /\ relationships["alice"][1].interaction_count = 11
    /\ relationships["bob"][1].interaction_count = 0

\* the multiplier of a kind as the spec states it, in tenths
SpecMultiplier(connection_type) ==
    IF connection_type = CT_Mentorship THEN 12
    ELSE IF connection_type = CT_Collaboration THEN 11
    ELSE IF connection_type = CT_Professional THEN 10
    ELSE IF connection_type = CT_Friendship THEN 9
    ELSE IF connection_type \in {CT_Learning, CT_Consultation} THEN 8
    ELSE IF connection_type = CT_DataSharing THEN 7
    ELSE 6

\* the sum of strength * multiplier over the first n records of agent a, in
\* ten-thousandths
RECURSIVE InfluenceOfFirst(_, _)
InfluenceOfFirst(a, n) ==
    IF n = 0 THEN 0
    ELSE relationships[a][n].strength
             * SpecMultiplier(relationships[a][n].connection_type)
         + InfluenceOfFirst(a, n - 1)

\* the three terms of the social influence score of agent a in this state, as
\* the spec states them, in ten-thousandths
TermRelationships(a) ==
    IF a \in DOMAIN relationships THEN InfluenceOfFirst(a, Len(relationships[a])) ELSE 0
TermNetwork(a) ==
    IF a \in DOMAIN network_metrics
    THEN network_metrics[a].centrality * 3 + network_metrics[a].betweenness * 2
    ELSE 0
TermRecent(a) ==
    1000 * Cardinality({i \in 1..Len(social_events) :
                           /\ a \in {social_events[i].source_agent,
                                      social_events[i].target_agent}
                           /\ social_events[i].timestamp > now - 24})

\* C12: the social influence score that get_agent_network returns for an agent
\* is min(relationship_influence + network_influence + recent_activity, 1.0),
\* with relationship_influence the sum of strength * multiplier over the
\* agent's records, network_influence = centrality*0.3 + betweenness*0.2 and
\* recent_activity = 0.1 * (number of social events that involve the agent
\* and are less than 24 hours old); so it never exceeds 1.0.
C12_InfluenceIsCappedSum ==
    ret.op = "get_agent_network" =>
        LET a == ret.args[1]
            sum == TermRelationships(a) + TermNetwork(a) + TermRecent(a)
        IN  /\ ret.value.agent_id = a
            /\ ret.value.social_influence = (IF sum < 10000 THEN sum ELSE 10000)
            /\ ret.value.social_influence <= 10000
            /\ ret.value.social_influence >= 0

\* C12 witness: get_agent_network(alice) returned 1.0 in a state where the
\* three terms add up to more than 1.0
C12_Witness ==
    /\ ret.op = "get_agent_network" /\ ret.args[1] = "alice"
    /\ TermRelationships("alice") > 0 /\ TermNetwork("alice") > 0
    /\ TermRecent("alice") > 0
    /\ TermRelationships("alice") + TermNetwork("alice") + TermRecent("alice") > 10000
    /\ ret.value.social_influence = 10000

\* every two distinct agents of the relationship store have a record in both
\* directions
FullPairwise ==
    \A a \in DOMAIN relationships, b \in DOMAIN relationships :
        a # b => \E i \in 1..Len(relationships[a]) :
                    relationships[a][i].other_agent_id = b

\* C13 as claimed: when the relationship store holds N >= 2 agents and every
\* pair of distinct agents has a relationship, get_network_analytics reports
\* network_density = 1.0; in general the density reported is
\* total_relationships / (N*(N-1)/2).
C13_AsClaimed ==
    ret.op = "get_network_analytics" =>
        LET N == Cardinality(DOMAIN relationships)
            density == ret.value.network_density
        IN  /\ N >= 2 =>
                  density.num * (N * (N - 1)) =
                      2 * ret.value.total_relationships * density.den
            /\ (N >= 2 /\ FullPairwise) => density.num = density.den

\* C14: get_network_analytics reports density exactly 0.0 whenever the
\* relationship store holds no agent or one agent; on an engine that has
\* processed nothing it reports total_agents 0, total_relationships 0, density
\* 0.0 and no influential agent.
C14_DensityZeroBelowTwoAgents ==
    ret.op = "get_network_analytics" =>
        /\ ret.value.total_agents = Cardinality(DOMAIN relationships)
        /\ ret.value.total_agents <= 1 =>
              /\ ret.value.network_density.num = 0
              /\ ret.value.network_density.den # 0
        /\ (social_events = << >> /\ connection_history = << >>) =>
              /\ ret.value.total_agents = 0
              /\ ret.value.total_relationships = 0
              /\ ret.value.network_density.num = 0
              /\ ret.value.most_influential_agents = << >>

\* C14 witness: analytics on a store whose only agent is alice, who has
\* interacted with herself and holds two records: density 0.0
C14_Witness ==
    /\ ret.op = "get_network_analytics"
    /\ DOMAIN relationships = {"alice"}
    /\ ret.value.total_agents = 1
    /\ ret.value.total_relationships = 2
    /\ ret.value.network_density.num = 0
    /\ Len(ret.value.most_influential_agents) = 1

\* C15: a query (get_agent_network, get_social_recommendations,
\* get_network_analytics: a step that returns one of them and changes nothing
\* else) runs only in a state where every
\* process_social_interaction call that the relationship store reflects is
\* also reflected by the network metrics and by the social-event log: no call
\* is in flight, the connection log and the event log are equally long and
\* the metrics have been updated twice per event.
C15_Step ==
    (/\ ret'.op \in QueryOps
     /\ UNCHANGED <<relationships, connection_history, learning_records,
                    network_metrics, social_events, now, pc, call>>) =>
        /\ pc = "idle" /\ call = NoCall
        /\ Len(connection_history) = Len(social_events)
        /\ MetricsTouches = 2 * Len(social_events)

\* C15: every query step finds the interaction pipeline fully applied, as
\* stated above
C15_QueriesSeeWholeCalls == [][C15_Step]_vars

\* C15 witness: get_network_analytics returned after two whole calls: two
\* connection events, two social events, four metrics updates
C15_Witness ==
    /\ ret.op = "get_network_analytics"
    /\ Len(connection_history) = 2 /\ Len(social_events) = 2
    /\ MetricsTouches = 4
    /\ ret.value.total_relationships = 4

\* how far a kind is along the promotion paths: every promotion of the match
\* leads to a kind of higher rank
Rank(connection_type) ==
    IF connection_type \in {CT_Friendship, CT_Collaboration} THEN 2
    ELSE IF connection_type \in {CT_Professional, CT_Mentorship} THEN 1
    ELSE 0

\* C20: the kind of a record never goes back: whenever a step changes the kind
\* of a record, the new kind lies strictly further along the promotion paths
\* (Competition -> Professional -> Friendship, Consultation -> Mentorship ->
\* Collaboration, DataSharing -> Collaboration) than the old one, whatever the
\* outcome and the strength; as the rank only rises, no record returns to a
\* kind it held before, and no step lowers a rank when the strength falls to
\* 0.9 or below.
C20_Step ==
    \A p \in Places(relationships) :
        LET before == relationships[p[1]][p[2]]
            after  == relationships'[p[1]][p[2]]
        IN  /\ p \in Places(relationships')
            /\ Rank(after.connection_type) >= Rank(before.connection_type)
            /\ after.connection_type # before.connection_type =>
                   Rank(after.connection_type) > Rank(before.connection_type)
            /\ after.strength <= 900 =>
                   after.connection_type = before.connection_type

\* C20: every step keeps or raises the rank of every record's kind, as stated
\* above
C20_OneWayRatchet == [][C20_Step]_vars

\* C20 witness: the record was promoted from Consultation to Mentorship by a
\* Successful interaction (+0.08, to 0.93, count 11), a Failed interaction
\* then took its strength to 0.855, and its kind is still Mentorship (a
\* record seeded as Mentorship would have been promoted to Collaboration by
\* the first call)
C20_Witness ==
    /\ Len(connection_history) = 2
    /\ connection_history[1].strength_change = 80
    /\ connection_history[2].strength_change = -75
    /\ relationships["alice"][1].interaction_count = 12
    /\ relationships["alice"][1].strength = 855
    /\ relationships["alice"][1].connection_type = CT_Mentorship

---------------------------------------------------------------------------
(* C21: records are never removed *)

\* the ordered pairs (owner, other) that have a relationship record
Pairs(rels) == {<<p[1], rels[p[1]][p[2]].other_agent_id>> : p \in Places(rels)}

\* one step removes nothing: every ordered pair that has a relationship record
\* has one afterwards, no list gets shorter, and every agent that has a
\* metrics record has one afterwards
C21_Step ==
    /\ Pairs(relationships) \subseteq Pairs(relationships')
    /\ \A a \in DOMAIN relationships :
          /\ a \in DOMAIN relationships'
          /\ Len(relationships'[a]) >= Len(relationships[a])
    /\ DOMAIN network_metrics \subseteq DOMAIN network_metrics'

\* C21: no operation removes a relationship record or a per-agent metrics
\* record: over any sequence of operations the set of ordered pairs that have
\* a relationship record and the set of agents that have a metrics record only
\* grow.
C21_RecordsOnlyGrow == [][C21_Step]_vars

\* C21 witness: after three whole calls between three agents and a query, all
\* six ordered pairs of distinct agents have a record and all three agents have
\* a metrics record
C21_Witness ==
    /\ ret.op \in QueryOps
    /\ Len(social_events) = 3
    /\ Cardinality(Pairs(relationships)) = 6
    /\ DOMAIN network_metrics = Agents

---------------------------------------------------------------------------
(* C22: the queries write nothing *)

\* In SpecQueries no call and no clock step follows a query, so a step that
\* leaves a query's result in ret is a query.
C22_Step ==
    ret'.op \in QueryOps =>
        /\ relationships' = relationships
        /\ connection_history' = connection_history
        /\ learning_records' = learning_records
        /\ network_metrics' = network_metrics
        /\ social_events' = social_events

\* C22: get_agent_network, get_social_recommendations and
\* get_network_analytics leave the relationship ledger, the connection-event
\* log, the learning records, the per-agent metrics and the social-event log
\* unchanged; in particular a query for an agent that was never seen creates
\* no record in any store.
C22_QueriesWriteNothing == [][C22_Step]_vars

\* C22 witness: get_agent_network(carol) has returned on an engine that has
\* processed two calls between alice and bob; carol is in no store
C22_Witness ==
    /\ ret.op = "get_agent_network" /\ ret.args[1] = "carol"
    /\ Len(social_events) = 2 /\ Len(connection_history) = 2
    /\ DOMAIN relationships = {"alice", "bob"}
    /\ DOMAIN network_metrics = {"alice", "bob"}
    /\ "carol" \notin DOMAIN learning_records

---------------------------------------------------------------------------
(* C23: get_agent_metrics *)

\* get_agent_network hands the result of get_agent_metrics on as the
\* network_metrics field of its own result
C23_Step ==
    ret'.op = "get_agent_network" =>
        LET a == ret'.args[1]
            got == ret'.value.network_metrics
        IN  IF a \in DOMAIN network_metrics
            THEN /\ got = network_metrics[a]
                 /\ network_metrics' = network_metrics
            ELSE /\ got.agent_id = a
                 /\ got.centrality = 0 /\ got.betweenness = 0
                 /\ got.clustering_coefficient = 0 /\ got.influence_score = 0
                 /\ got.active_relationships = 0 /\ got.network_reach = 0
                 /\ a \notin DOMAIN network_metrics'
                 /\ network_metrics' = network_metrics

\* C23: get_agent_metrics(agent) returns the stored metrics record when the
\* agent has one and otherwise a fresh record with centrality, betweenness,
\* clustering coefficient, influence score, active-relationship count and
\* network reach all zero, without inserting that record into the metrics
\* store.
C23_StoredOrFreshZero == [][C23_Step]_vars

\* C23 witness: the metrics store holds alice (touched by three calls) and
\* bob; the query for carol returned an all-zero record and carol is still
\* not in the store
C23_Witness ==
    /\ ret.op = "get_agent_network" /\ ret.args[1] = "carol"
    /\ DOMAIN network_metrics = {"alice", "bob"}
    /\ network_metrics["alice"].active_relationships = 3
    /\ ret.value.network_metrics.agent_id = "carol"
    /\ ret.value.network_metrics.influence_score = 0
    /\ ret.value.network_metrics.active_relationships = 0

\* C23 witness for the stored case: the query for alice returned her stored
\* record, which three calls have raised
C23_WitnessStored ==
    /\ ret.op = "get_agent_network" /\ ret.args[1] = "alice"
    /\ "alice" \in DOMAIN network_metrics
    /\ ret.value.network_metrics = network_metrics["alice"]
    /\ ret.value.network_metrics.active_relationships = 3

---------------------------------------------------------------------------
(* C24: get_most_influential_agents *)

\* the agents a result names
Returned(list) == {list[i].agent_id : i \in 1..Len(list)}

\* C24: get_most_influential_agents returns min(10, number of agents with a
\* metrics record) entries, one per agent and with the agent's stored
\* influence_score, sorted by influence_score in non-increasing order, and no
\* agent left out has a strictly higher influence_score than an agent
\* returned.
C24_TopTenDescending ==
    ret.op = "get_most_influential_agents" =>
        LET list == ret.value
            n == Cardinality(DOMAIN network_metrics)
        IN  /\ Len(list) = (IF n < 10 THEN n ELSE 10)
            /\ Returned(list) \subseteq DOMAIN network_metrics
            /\ Cardinality(Returned(list)) = Len(list)
            /\ \A i \in 1..Len(list) :
                  list[i].agent_id \in DOMAIN network_metrics =>
                      list[i].influence_score =
                          network_metrics[list[i].agent_id].influence_score
            /\ \A i \in 1..Len(list), j \in 1..Len(list) :
                  i < j => list[i].influence_score >= list[j].influence_score
            /\ \A a \in DOMAIN network_metrics \ Returned(list), i \in 1..Len(list) :
                  network_metrics[a].influence_score <= list[i].influence_score

\* C24 witness: eleven agents have a record, ten came back, the agent left
\* out has the score of the last agent returned, and scores differ within the
\* result
C24_Witness ==
    /\ ret.op = "get_most_influential_agents"
    /\ Cardinality(DOMAIN network_metrics) = 11
    /\ Len(ret.value) = 10
    /\ ret.value[1].influence_score > ret.value[10].influence_score
    /\ \E a \in DOMAIN network_metrics \ Returned(ret.value) :
          network_metrics[a].influence_score = ret.value[10].influence_score

---------------------------------------------------------------------------
(* C25: get_social_recommendations *)

\* the entries of a result that have the given recommendation type
OfType(list, recommendation_type) ==
    {j \in 1..Len(list) : list[j].recommendation_type = recommendation_type}

\* the records of the list that are Collaboration records stronger than 0.6
StrongCollaborations(mine) ==
    {i \in 1..Len(mine) : /\ mine[i].connection_type = CT_Collaboration
                          /\ mine[i].strength > 600}

\* entry x is the collaboration entry of record r: potential_benefit =
\* strength * 0.8 (in ten-thousandths), confidence 0.85
EntryOf(x, r) ==
    /\ x.target_agent = r.other_agent_id
    /\ x.potential_benefit = r.strength * 8
    /\ x.confidence = 850

\* C25: get_social_recommendations(agent) returns the union of the
\* new-connection, learning-opportunity and collaboration streams sorted by
\* potential_benefit in non-increasing order; the collaboration stream
\* contains exactly one entry per relationship of the agent whose kind is
\* Collaboration and whose strength > 0.6, with potential_benefit =
\* strength*0.8 and confidence 0.85, and no entry for any other relationship.
C25_SortedUnionOfStreams ==
    ret.op = "get_social_recommendations" =>
        LET a == ret.args[1]
            list == ret.value
            mine == IF a \in DOMAIN relationships THEN relationships[a] ELSE << >>
            strong == StrongCollaborations(mine)
            collab == OfType(list, "Collaboration")
        IN  /\ \A i \in 1..Len(list), j \in 1..Len(list) :
                  i < j => list[i].potential_benefit >= list[j].potential_benefit
            /\ Cardinality(OfType(list, "NewConnection")) = 1
            /\ Cardinality(OfType(list, "LearningOpportunity")) = 1
            /\ Len(list) = 2 + Cardinality(collab)
            /\ Cardinality(collab) = Cardinality(strong)
            /\ \A i \in strong : \E j \in collab : EntryOf(list[j], mine[i])
            /\ \A j \in collab : \E i \in strong : EntryOf(list[j], mine[i])

\* C25 witness: alice holds Collaboration records of strength 1.0 (bob, after
\* a Successful update) and 0.95 (carol); her recommendations are the
\* learning opportunity (0.8), bob (0.8), carol (0.76) and the new connection
\* (0.7), in this order
C25_Witness ==
    /\ ret.op = "get_social_recommendations" /\ ret.args[1] = "alice"
    /\ Len(connection_history) = 1
    /\ Len(ret.value) = 4
    /\ ret.value[1].recommendation_type = "LearningOpportunity"
    /\ ret.value[2].recommendation_type = "Collaboration"
    /\ ret.value[2].target_agent = "bob" /\ ret.value[2].potential_benefit = 8000
    /\ ret.value[3].target_agent = "carol" /\ ret.value[3].potential_benefit = 7600
    /\ ret.value[4].recommendation_type = "NewConnection"

\* C25 witness for a promotion: alice -> bob was a Mentorship record; the
\* update made it a Collaboration record, and it is recommended
C25_WitnessPromoted ==
    /\ ret.op = "get_social_recommendations" /\ ret.args[1] = "alice"
    /\ Len(connection_history) = 1
    /\ relationships["alice"][1].connection_type = CT_Collaboration
    /\ relationships["alice"][1].interaction_count = 11
    /\ relationships["alice"][2].connection_type = CT_Mentorship
    /\ \E j \in 1..Len(ret.value) : ret.value[j].target_agent = "bob"
    /\ \A j \in 1..Len(ret.value) : ret.value[j].target_agent # "carol"

---------------------------------------------------------------------------
(* C26: the learning effectiveness *)

\* the effectiveness of a kind as the spec states it, in thousandths
SpecEffectiveness(interaction_type) ==
    IF interaction_type = SIT_Mentorship THEN 900
    ELSE IF interaction_type = SIT_Teaching THEN 800
    ELSE IF interaction_type = SIT_Collaboration THEN 700
    ELSE IF interaction_type = SIT_KnowledgeSharing THEN 600
    ELSE 500

\* a learning result is the one of the kind: the effectiveness of the table,
\* and relationship_impact half of it
ResultOfKind(result, interaction_type) ==
    /\ result.learning_effectiveness = SpecEffectiveness(interaction_type)
    /\ result.relationship_impact * 2 = result.learning_effectiveness

\* C26: process_interaction of the learning tracker returns an effectiveness
\* that depends only on the interaction kind (Mentorship 0.9, Teaching 0.8,
\* Collaboration 0.7, KnowledgeSharing 0.6, every other kind 0.5), independent
\* of source, target, context and of any earlier interaction, together with
\* relationship_impact = effectiveness * 0.5.  It is stated of the result of a
\* direct call, of the result the engine holds during its own call, and of the
\* results kept in the social events.
C26_EffectivenessByKindOnly ==
    /\ ret.op = "process_interaction" => ResultOfKind(ret.value, ret.args[3])
    /\ pc \in {"metrics", "event"} =>
          ResultOfKind(call.learning_result, call.interaction_type)
    /\ \A i \in 1..Len(social_events) :
          ResultOfKind(social_events[i].learning_outcome,
                       social_events[i].interaction_type)

\* C26 witness: after a Mentorship call of the engine between alice and bob,
\* carol's Teaching interaction with herself in another context has
\* effectiveness 0.8 and relationship_impact 0.4
C26_Witness ==
    /\ ret.op = "process_interaction"
    /\ ret.args = <<"carol", "carol", SIT_Teaching, "review">>
    /\ Len(social_events) = 1
    /\ social_events[1].learning_outcome.learning_effectiveness = 900
    /\ ret.value.learning_effectiveness = 800
    /\ ret.value.relationship_impact = 400
    /\ learning_records = << >>

---------------------------------------------------------------------------
(* C27, C28: the dynamic strength *)

\* the whole days between the last interaction of record r and clock reading t
DaysElapsed(r, t) == NumDays(t - r.last_interaction)

\* A step that leaves a dynamic strength in ret: the record called on is as it
\* was; and when ret held a dynamic strength of the same record before (no
\* interaction since, for update_relationship puts its own result there) and
\* the whole days elapsed are the same at both clock readings, the value is
\* the same.
C27_Step ==
    ret'.op = "calculate_dynamic_strength" =>
        /\ relationships' = relationships
        /\ (/\ ret.op = "calculate_dynamic_strength"
            /\ ret.args[1] = ret'.args[1] /\ ret.args[2] = ret'.args[2]
            /\ LET r == relationships[ret.args[1]][ret.args[2]]
               IN  DaysElapsed(r, ret.args[3]) = DaysElapsed(r, ret'.args[3]))
           => ret'.value = ret.value

\* C27: two calls of the dynamic-strength recomputation on the same
\* relationship, with no elapsed days and no interaction in between, return
\* the same value, and the recomputation never changes the stored strength,
\* interaction count, timestamps or kind of the relationship.
C27_IdempotentAndReadOnly == [][C27_Step]_vars

\* C27 witness: the Friendship record alice -> bob (strength 0.5, ten
\* interactions) was asked at hour 12 and, as at hour 0, answered 0.72; the
\* stored record is as it was seeded
C27_Witness ==
    /\ ret.op = "calculate_dynamic_strength"
    /\ ret.args = <<"alice", 1, 12>>
    /\ ret.value = 720000
    /\ relationships["alice"][1] =
          [NewRelationship("alice", "bob", 0) EXCEPT
              !.connection_type = CT_Friendship, !.strength = 500,
              !.interaction_count = 10]

\* the type modifier of the dynamic strength as the spec states it, in tenths
SpecDynamicModifier(connection_type) ==
    IF connection_type = CT_Friendship THEN 12
    ELSE IF connection_type = CT_Collaboration THEN 11
    ELSE IF connection_type = CT_Mentorship THEN 10
    ELSE IF connection_type \in {CT_Professional, CT_DataSharing} THEN 9
    ELSE IF connection_type \in {CT_Learning, CT_Consultation} THEN 8
    ELSE 4

\* clamp((s * max(1 - d*0.01, 0.5) + min(c/100, 0.2)) * type_modifier(k), 0, 1)
\* in millionths, for s in thousandths
SpecDynamicStrength(s, c, k, d) ==
    LET decay == IF 100 - d > 50 THEN 100 - d ELSE 50
        boost == IF c * 1000 < 20000 THEN c * 1000 ELSE 20000
        raw == (s * decay + boost) * SpecDynamicModifier(k)
    IN  IF raw < 0 THEN 0 ELSE IF raw > 1000000 THEN 1000000 ELSE raw

\* C28: for a relationship with stored strength s, interaction count c, kind k
\* and d whole days elapsed since the last interaction, the dynamic strength
\* equals clamp((s * max(1 - d*0.01, 0.5) + min(c/100, 0.2)) *
\* type_modifier(k), 0, 1) with type_modifier Friendship 1.2, Collaboration
\* 1.1, Mentorship 1.0, Professional 0.9, Learning 0.8, Competition 0.4,
\* DataSharing 0.9, Consultation 0.8; the result is always in [0,1].
C28_DynamicStrengthFormula ==
    ret.op = "calculate_dynamic_strength" =>
        LET r == relationships[ret.args[1]][ret.args[2]]
        IN  /\ ret.value = SpecDynamicStrength(r.strength, r.interaction_count,
                               r.connection_type, DaysElapsed(r, ret.args[3]))
            /\ ret.value >= 0 /\ ret.value <= 1000000

\* C28 witness: a Competition record of strength 1.0 with 25 interactions, 75
\* days after its last interaction: the decay is held at 0.5 and the boost at
\* 0.2, and the dynamic strength is (0.5 + 0.2) * 0.4 = 0.28
C28_Witness ==
    /\ ret.op = "calculate_dynamic_strength"
    /\ ret.args = <<"alice", 1, 1800>>
    /\ relationships["alice"][1].connection_type = CT_Competition
    /\ relationships["alice"][1].strength = 1000
    /\ relationships["alice"][1].interaction_count = 25
    /\ relationships["alice"][1].last_interaction = 0
    /\ ret.value = 280000

\* C28 witness for the upper clamp and a last interaction ahead of the clock:
\* a Friendship record whose update was stamped sixty days ahead is asked 35
\* days before that stamp, and (1.0 * 1.35 + 0.2) * 1.2 is cut to 1.0
C28_WitnessClamped ==
    /\ ret.op = "calculate_dynamic_strength"
    /\ ret.args = <<"alice", 1, 600>>
    /\ relationships["alice"][1].connection_type = CT_Friendship
    /\ relationships["alice"][1].strength = 1000
    /\ relationships["alice"][1].last_interaction = 1440
    /\ ret.value = 1000000

---------------------------------------------------------------------------
(* C30: the connection-event log *)

\* this step is the update_relationship call of process_social_interaction,
\* which succeeded
UpdateCallDone == pc = "idle" /\ pc' = "learning"

\* one step: the log keeps what it held; a successful update_relationship call
\* appends one event, which names the two participants of the interaction in
\* their order, and no other step appends; every event of the log has kind
\* StrengthChanged
C30_Step ==
    /\ Len(connection_history') >= Len(connection_history)
    /\ SubSeq(connection_history', 1, Len(connection_history)) = connection_history
    /\ \A i \in 1..Len(connection_history') :
          connection_history'[i].event_type = "StrengthChanged"
    /\ IF UpdateCallDone
       THEN /\ Len(connection_history') = Len(connection_history) + 1
            /\ Last(connection_history').agent1_id = call'.interaction.participants[1]
            /\ Last(connection_history').agent2_id = call'.interaction.participants[2]
            /\ call'.interaction.participants = <<call'.source_agent, call'.target_agent>>
       ELSE connection_history' = connection_history

\* C30: every successful update_relationship call appends exactly one
\* ConnectionEvent naming the two participants in call order; every event ever
\* emitted has kind StrengthChanged (never Established, TypeChanged or
\* Dissolved, also on the call that creates the pair or that promotes the
\* kind); the log is append-only.
C30_OneStrengthChangedEventPerUpdate == [][C30_Step]_vars

\* C30 witness: the eleventh update of alice -> bob has just promoted the
\* record from Professional to Friendship; the log holds eleven events, the
\* first from the call that created the pair, the last from the promoting
\* call, all StrengthChanged and all naming alice, then bob
C30_Witness ==
    /\ pc = "learning"
    /\ Len(connection_history) = 11
    /\ relationships["alice"][1].interaction_count = 11
    /\ relationships["alice"][1].connection_type = CT_Friendship
    /\ call.relationship_update.connection_type = CT_Friendship
    /\ \A i \in 1..11 : /\ connection_history[i].event_type = "StrengthChanged"
                        /\ connection_history[i].agent1_id = "alice"
                        /\ connection_history[i].agent2_id = "bob"

---------------------------------------------------------------------------
(* C31: the strength_change of a ConnectionEvent *)

\* the type modifier of a label matched as written, in tenths
LabelModifier(label) ==
    IF label = "collaboration" THEN 15
    ELSE IF label = "mentorship" THEN 13
    ELSE IF label = "competition" THEN 8
    ELSE IF label = "data_sharing" THEN 12
    ELSE IF label = "consultation" THEN 11
    ELSE 10

\* the interactions between the two agents this step's event names that make
\* update_relationship take this step
LoggedInteractions ==
    {interaction \in DirectInteractions :
        /\ interaction.participants = <<UpdatedFrom, UpdatedTo>>
        /\ LET r == update_relationship(relationships, connection_history,
                                        interaction, now)
           IN  /\ r.value = ret'.value
               /\ r.connection_history = connection_history'
               /\ r.relationships = relationships'}

\* a successful update_relationship step: the event appended carries
\* base_change(outcome) * type_modifier(label) of the interaction submitted,
\* in thousandths; and when old_strength plus that delta lies outside [0, 1],
\* the event's strength_change is not new_strength - old_strength
C31_Step ==
    (UpdateDone /\ ret'.ok) =>
        /\ LoggedInteractions # {}
        /\ \A x \in LoggedInteractions :
              LET delta == SpecBaseChange(x.outcome) * LabelModifier(x.interaction_type)
                  logged == Last(connection_history').strength_change
                  applied == ret'.value.new_strength - ret'.value.old_strength
                  unclamped == ret'.value.old_strength + delta
              IN  /\ logged = delta
                  /\ (unclamped < 0 \/ unclamped > 1000) => logged # applied
                  /\ (unclamped >= 0 /\ unclamped <= 1000) => logged = applied

\* C31: the strength_change stored in a ConnectionEvent is the computed delta
\* base_change(outcome) * type_modifier(label) of the interaction, not the
\* applied change: when clamping at 0 or 1 limits the update, the event's
\* strength_change differs from new_strength - old_strength of the same call.
C31_EventCarriesComputedDelta == [][C31_Step]_vars

\* C31 witness: a Successful "collaboration" update of a record at 0.95: the
\* stored strength rose by 0.05 to 1.0 and the event says 0.15
C31_Witness ==
    /\ ret.op = "update_relationship" /\ ret.ok
    /\ Len(connection_history) = 1
    /\ ret.value.old_strength = 950 /\ ret.value.new_strength = 1000
    /\ connection_history[1].strength_change = 150

\* C31 witness for the clamp at 0: a Failed "collaboration" update of a record
\* at 0.05: the stored strength fell by 0.05 to 0.0 and the event says -0.075
C31_WitnessAtZero ==
    /\ ret.op = "update_relationship" /\ ret.ok
    /\ Len(connection_history) = 1
    /\ ret.value.old_strength = 50 /\ ret.value.new_strength = 0
    /\ connection_history[1].strength_change = -75

---------------------------------------------------------------------------
(* C32: the kinds a record can reach from an empty store *)

\* C32: starting from an empty store and using only update_relationship /
\* process_social_interaction, every relationship record always has connection
\* kind Professional or Friendship; no record ever reaches kind Collaboration,
\* so the collaboration stream of get_social_recommendations is empty in every
\* reachable state.
C32_OnlyProfessionalOrFriendship ==
    /\ \A p \in Places(relationships) :
          relationships[p[1]][p[2]].connection_type \in {CT_Professional, CT_Friendship}
    /\ \A a \in Agents :
          recommend_collaborations(get_agent_relationships(relationships, a)) = << >>
    /\ ret.op = "get_social_recommendations" =>
          /\ OfType(ret.value, "Collaboration") = {}
          /\ Len(ret.value) = 2

\* C32 witness: after twelve updates alice -> bob is a Friendship record of
\* strength 1.0, and alice's recommendations are the two fixed entries
C32_Witness ==
    /\ ret.op = "get_social_recommendations" /\ ret.args[1] = "alice"
    /\ Len(connection_history) = 12
    /\ relationships["alice"][1].connection_type = CT_Friendship
    /\ relationships["alice"][1].strength = 1000
    /\ relationships["alice"][1].interaction_count = 12
    /\ Len(ret.value) = 2

---------------------------------------------------------------------------
(* C33: the agents of the relationship store and of the metrics store *)

\* C33: after any sequence of process_social_interaction calls on an
\* initially empty engine (no call in flight), the set of agents that own a
\* relationship list in the relationship store equals the set of agents that
\* have a metrics record in the network analyzer, so total_agents in analytics
\* equals the number of metrics records.
C33_SameAgentsInBothStores ==
    /\ pc = "idle" =>
          /\ DOMAIN relationships = DOMAIN network_metrics
          /\ get_total_agents(relationships) = Cardinality(DOMAIN network_metrics)
    /\ ret.op = "get_network_analytics" =>
          /\ ret.value.total_agents = Cardinality(DOMAIN network_metrics)
          /\ Len(ret.value.most_influential_agents) = ret.value.total_agents

\* C33 witness: analytics after three calls, one of alice with herself: both
\* stores hold alice, bob and carol
C33_Witness ==
    /\ ret.op = "get_network_analytics"
    /\ Len(social_events) = 3
    /\ Len(relationships["alice"]) = 4
    /\ DOMAIN relationships = Agents
    /\ DOMAIN network_metrics = Agents
    /\ ret.value.total_agents = 3

\* C33 witness for a call in flight: the relationship store already holds the
\* two agents of the call and the metrics store holds none
C33_WitnessInFlight ==
    /\ pc = "metrics"
    /\ DOMAIN relationships = {"alice", "bob"}
    /\ DOMAIN network_metrics = {}

---------------------------------------------------------------------------
(* C34: the two logs and the interaction counts *)

\* the sum of interaction_count over the records at the places S
RECURSIVE SumCounts(_, _)
SumCounts(rels, S) ==
    IF S = {} THEN 0
    ELSE LET p == CHOOSE x \in S : TRUE
         IN  rels[p[1]][p[2]].interaction_count + SumCounts(rels, S \ {p})

\* C34: after any sequence of process_social_interaction calls on an
\* initially empty engine (no call in flight), the length of the social-event
\* log equals the length of the connection-event log and equals the sum of
\* interaction_count over all relationship records.
C34_LogsAndCountsAgree ==
    pc = "idle" =>
        /\ Len(social_events) = Len(connection_history)
        /\ SumCounts(relationships, Places(relationships)) = Len(social_events)

\* C34 witness: two calls, alice with herself and alice with bob, have
\* returned: two social events, two connection events, and the four records
\* (two alice -> alice, alice -> bob, bob -> alice) count two interactions
C34_Witness ==
    /\ pc = "idle"
    /\ Len(social_events) = 2 /\ Len(connection_history) = 2
    /\ DOMAIN relationships = {"alice", "bob"}
    /\ Len(relationships["alice"]) = 3
    /\ SumCounts(relationships, Places(relationships)) = 2

---------------------------------------------------------------------------
(* C35: process_social_interaction has no failing path *)

\* a step that enters process_social_interaction: the engine was idle and the
\* step changed something
CallEntered == pc = "idle" /\ (pc' # pc \/ ret' # ret \/ relationships' # relationships)

\* a step that returns from process_social_interaction
CallReturned == pc = "event" /\ pc' = "idle"

C35_Step ==
    /\ CallEntered =>
          /\ pc' = "learning"
          /\ Len(connection_history') = Len(connection_history) + 1
          /\ {call'.source_agent, call'.target_agent} \subseteq DOMAIN relationships'
          /\ \E i \in 1..Len(relationships'[call'.source_agent]) :
                /\ relationships'[call'.source_agent][i].other_agent_id = call'.target_agent
                /\ relationships'[call'.source_agent][i].interaction_count >= 1
    /\ CallReturned =>
          /\ ret'.op = "process_social_interaction" /\ ret'.ok
          /\ {call.source_agent, call.target_agent} \subseteq DOMAIN network_metrics
          /\ Len(social_events') = Len(social_events) + 1
          /\ Last(social_events').source_agent = call.source_agent
          /\ Last(social_events').target_agent = call.target_agent
          /\ Last(social_events').interaction_type = call.interaction_type
    /\ ret'.op = "process_social_interaction" => ret'.ok /\ ret'.error = NoError

\* C35: process_social_interaction never returns an error: for every source,
\* target (source = target included), interaction kind and context the call
\* gets past the relationship store, which holds a counted record for the
\* pair afterwards, reaches the metrics store, which holds both agents
\* afterwards, appends a SocialEvent for the call and returns Ok.
C35_CallNeverFails == [][C35_Step]_vars

\* C35 witness: a call of alice with herself has returned Ok; she has her two
\* records, her metrics record and the event
C35_Witness ==
    /\ ret.op = "process_social_interaction" /\ ret.ok
    /\ pc = "idle"
    /\ Len(social_events) = 1
    /\ social_events[1].source_agent = "alice" /\ social_events[1].target_agent = "alice"
    /\ DOMAIN relationships = {"alice"} /\ Len(relationships["alice"]) = 2
    /\ relationships["alice"][2].interaction_count = 1
    /\ DOMAIN network_metrics = {"alice"}

\* C35 witness: every kind submitted has returned Ok for a pair of two agents
C35_WitnessTeaching ==
    /\ ret.op = "process_social_interaction" /\ ret.ok
    /\ Len(social_events) = 2
    /\ social_events[2].interaction_type = SIT_Teaching
    /\ social_events[2].source_agent = "bob" /\ social_events[2].target_agent = "carol"

---------------------------------------------------------------------------
(* C36: the learning records stay empty *)

\* C36: the learning tracker's process_interaction leaves the learning
\* records unchanged, so after any sequence of process_social_interaction
\* calls the store is as new() made it, and the learning_events total of
\* get_network_analytics and the total_learning_events (and recent_learning)
\* of an agent's learning progress are 0 (empty) for every agent.
C36_NoLearningRecorded ==
    /\ learning_records = << >>
    /\ get_total_learning_events(learning_records) = 0
    /\ \A agent_id \in Agents :
          /\ get_learning_progress(learning_records, agent_id).total_learning_events = 0
          /\ get_learning_progress(learning_records, agent_id).recent_learning = << >>
    /\ ret.op = "get_network_analytics" => ret.value.learning_events = 0
    /\ ret.op = "get_agent_network" =>
          /\ ret.value.learning_progress.total_learning_events = 0
          /\ ret.value.learning_progress.recent_learning = << >>

\* C36 witness: after three calls with alice as source, get_network_analytics
\* reports three social interactions' worth of relationships and no learning
\* event
C36_Witness ==
    /\ ret.op = "get_network_analytics"
    /\ Len(social_events) = 3
    /\ \A i \in 1..3 : social_events[i].source_agent = "alice"
    /\ \A i \in 1..3 : social_events[i].learning_outcome.learning_effectiveness > 0
    /\ ret.value.total_relationships > 0
    /\ ret.value.learning_events = 0

\* C36 witness: after a call with alice as source, her network view reports
\* no learning event
C36_WitnessProgress ==
    /\ ret.op = "get_agent_network" /\ ret.args = <<"alice">>
    /\ Len(social_events) >= 1
    /\ social_events[1].source_agent = "alice"
    /\ ret.value.learning_progress.total_learning_events = 0

---------------------------------------------------------------------------
(* C37: strength through the orchestrator only grows, up to 1.0 *)

\* a new pair starts at 0.1 and gains 0.1 with every call of the orchestrator,
\* so its ninth call brings it to 1.0
C37_Step ==
    /\ \A p \in Places(relationships) :
          /\ relationships'[p[1]][p[2]].strength >= relationships[p[1]][p[2]].strength
          /\ relationships[p[1]][p[2]].strength = 1000 =>
                relationships'[p[1]][p[2]].strength = 1000
    /\ \A p \in Places(relationships') :
          LET r == relationships'[p[1]][p[2]]
          IN  r.interaction_count >= 9 => r.strength = 1000
    /\ \A i \in 1..Len(social_events') :
          social_events'[i].relationship_impact = IF i > 9 THEN 0 ELSE 100
    /\ CallReturned /\ call.relationship_update.old_strength = 1000 =>
          Last(social_events').relationship_impact = 0

\* C37: through process_social_interaction alone the stored strength of every
\* relationship never decreases; after enough interactions on the same
\* ordered pair (nine) the strength has reached 1.0 and stays 1.0, and every
\* later SocialEvent for that pair has relationship_impact 0.
C37_StrengthOnlyGrowsToFull == [][C37_Step]_vars

\* C37 witness: twelve calls alice -> bob have returned: the record is at 1.0,
\* the ninth event still has impact 0.1, the tenth to twelfth have impact 0
C37_Witness ==
    /\ pc = "idle"
    /\ Len(social_events) = 12
    /\ relationships["alice"][1].strength = 1000
    /\ relationships["alice"][1].interaction_count = 12
    /\ relationships["bob"][1].strength = 100
    /\ social_events[9].relationship_impact = 100
    /\ \A i \in 10..12 : social_events[i].relationship_impact = 0

---------------------------------------------------------------------------
(* C38: the metrics records *)

C38_Step ==
    /\ \A a \in DOMAIN network_metrics' :
          LET m == network_metrics'[a]
          IN  /\ 0 <= m.centrality
              /\ m.centrality <= m.influence_score
              /\ m.influence_score <= 1000
              /\ m.betweenness = 0
              /\ m.clustering_coefficient = 0
              /\ m.network_reach = 0
    /\ \A a \in DOMAIN network_metrics :
          /\ a \in DOMAIN network_metrics'
          /\ network_metrics'[a].centrality >= network_metrics[a].centrality
          /\ network_metrics'[a].influence_score >= network_metrics[a].influence_score

\* C38: in every reachable state of the metrics store, for every agent
\* 0 <= centrality <= influence_score <= 1, both values never decrease from
\* one state to the next, and betweenness, clustering coefficient and network
\* reach stay 0.
C38_MetricsBoundedAndGrowing == [][C38_Step]_vars

\* C38 witness: alice's influence score has reached the cap of 1.0 while her
\* centrality is still below it, after more touches than the ten that reach
\* the cap with the largest impact
C38_Witness ==
    /\ ret.op = "update_network_metrics"
    /\ "alice" \in DOMAIN network_metrics
    /\ network_metrics["alice"].influence_score = 1000
    /\ network_metrics["alice"].centrality < 1000
    /\ network_metrics["alice"].centrality >= 500
    /\ network_metrics["alice"].active_relationships > 10

\* C38 witness: alice's influence score is at the cap and bob's record, touched
\* less often, is strictly between 0 and the cap
C38_WitnessTwoAgents ==
    /\ DOMAIN network_metrics = {"alice", "bob"}
    /\ network_metrics["alice"].influence_score = 1000
    /\ network_metrics["bob"].influence_score > 0
    /\ network_metrics["bob"].influence_score < 1000
    /\ network_metrics["bob"].centrality > 0

---------------------------------------------------------------------------
(* C39: an update with outcome Pending *)

\* the interactions with outcome Pending that the step can have been called with
PendingInteractions == {x \in LoggedInteractions : x.outcome = "Pending"}

C39_Step ==
    (UpdateDone /\ ret'.ok) =>
        /\ Last(connection_history').strength_change = 0 => PendingInteractions # {}
        /\ \A x \in PendingInteractions :
              LET raised == {p \in Places(relationships') :
                                relationships'[p[1]][p[2]].interaction_count #
                                    Before(p[1], p[2]).interaction_count}
              IN  /\ Cardinality(raised) = 1
                  /\ \A p \in raised :
                        LET before == Before(p[1], p[2])
                            after  == relationships'[p[1]][p[2]]
                            due    == after.strength > 900 /\ after.interaction_count > 10
                        IN  /\ after.agent_id = x.participants[1]
                            /\ after.other_agent_id = x.participants[2]
                            /\ after.strength = before.strength
                            /\ ret'.value.new_strength = ret'.value.old_strength
                            /\ after.interaction_count = before.interaction_count + 1
                            /\ after.last_interaction = x.timestamp
                            /\ after.connection_type =
                                  IF due /\ before.connection_type \in DOMAIN PromotionMap
                                  THEN PromotionMap[before.connection_type]
                                  ELSE before.connection_type
                  /\ Last(connection_history').strength_change = 0

\* C39: an update_relationship call with outcome Pending leaves the stored
\* strength of the record unchanged but still increments its interaction
\* count, sets its last-interaction timestamp to the interaction's, promotes
\* its kind when strength > 0.9 and count > 10 (and only then), and appends a
\* ConnectionEvent with strength_change 0.
C39_PendingKeepsStrength == [][C39_Step]_vars

\* C39 witness: a Pending call on a Mentorship record at 0.95 with ten
\* interactions has returned: strength still 0.95, count 11, last interaction
\* at the caller's stamp, kind promoted to Collaboration, event with change 0
C39_Witness ==
    /\ ret.op = "update_relationship" /\ ret.ok
    /\ Len(connection_history) = 1
    /\ connection_history[1].strength_change = 0
    /\ connection_history[1].agent1_id = "alice"
    /\ connection_history[1].agent2_id = "bob"
    /\ ret.value.old_strength = 950 /\ ret.value.new_strength = 950
    /\ relationships["alice"][1].strength = 950
    /\ relationships["alice"][1].interaction_count = 11
    /\ relationships["alice"][1].last_interaction = 5
    /\ relationships["alice"][1].connection_type = CT_Collaboration
    /\ ret.value.connection_type = CT_Collaboration

\* C39 witness: a Pending call that created the pair has returned: strength
\* 0.1 as created, count 1, kind Professional, event with change 0
C39_WitnessCreated ==
    /\ ret.op = "update_relationship" /\ ret.ok
    /\ Len(connection_history) = 1
    /\ connection_history[1].strength_change = 0
    /\ DOMAIN relationships = {"alice", "bob"}
    /\ Len(relationships["alice"]) = 1
    /\ relationships["alice"][1].strength = 100
    /\ relationships["alice"][1].interaction_count = 1
    /\ relationships["alice"][1].last_interaction = 5
    /\ relationships["alice"][1].connection_type = CT_Professional

=============================================================================
